---- MODULE Spec2Model ----
(***************************************************************************)
(* Model of the barcode generator: the Type and Format registries, the     *)
(* Validator, the four renderers as seen by the service, and the           *)
(* BarcodeService operations generate and batch.                           *)
(*                                                                         *)
(* JavaScript values.  A string that is read character by character (the  *)
(* data to encode) is a sequence of UTF-16 code units; a string that is    *)
(* only compared (a type or format name) is a TLA+ string.  Both are       *)
(* wrapped in a record with the value's typeof tag so that undefined, null *)
(* and numbers can be passed where the code expects a string.              *)
(***************************************************************************)
EXTENDS Integers, Sequences, FiniteSets, TLC

VARIABLES
    vIn,        \* Validator: the (data, type) the caller passes
    vOut,       \* Validator: what validate returned (op = "none" before the call)
    cdOut,      \* Validator: what calculateEANCheckDigit returned (NoCd before the call)
    req,        \* Service: the call the caller makes
    pc,         \* Service: "start" before the call, "returned" / "threw" after it
                \* ("idle" when no call is made)
    last,       \* Service: outcome of generate
    results,    \* Service: array returned by batch
    calls,      \* Service: calls made into the validator and the renderers, in order
    pdfs,       \* Service: the PDF documents created, with their stream and promise state
    rIn,        \* Registry and facade: the (type, data) the caller passes
    rOut,       \* Registry and facade: the call made and what it returned
    rdIn,       \* Renderers: the (data, type, options) the caller passes
    rdOut,      \* Renderers: what each render call so far produced, in call order
    opts,       \* Builder: the options object of the QrCodeBuilder
    built,      \* Builder: whether build() was called, and the options as they were then
    gens,       \* Builder: the generate() calls of the result, each with its surface
    sets,       \* Builder: number of setter calls made
    wIn,        \* Watermark: the options of the result whose watermark is added
    wOut,       \* Watermark: what addWatermark drew (NotDrawn before the call)
    bld         \* Fluent interface: a builder, its options and the calls made on it

vars == <<vIn, vOut, cdOut, req, pc, last, results, calls, pdfs,
          rIn, rOut, rdIn, rdOut, opts, built, gens, sets, wIn, wOut, bld>>

valVars == <<vIn, vOut, cdOut>>
svcVars == <<req, pc, last, results, calls, pdfs>>
regVars == <<rIn, rOut>>
rndVars == <<rdIn, rdOut>>
qrVars == <<opts, built, gens, sets>>
wmVars == <<wIn, wOut>>

\* what an operation of one component leaves alone
notVal == <<svcVars, regVars, rndVars, qrVars, wmVars, bld>>
notSvc == <<valVars, regVars, rndVars, qrVars, wmVars, bld>>
notReg == <<valVars, svcVars, rndVars, qrVars, wmVars, bld>>
notRnd == <<valVars, svcVars, regVars, qrVars, wmVars, bld>>
notQr == <<valVars, svcVars, regVars, rndVars, wmVars, bld>>
notWm == <<valVars, svcVars, regVars, rndVars, qrVars, bld>>
notBld == <<valVars, svcVars, regVars, rndVars, qrVars, wmVars>>

----------------------------------------------------------------------------
(* Bounds of the model *)

MaxItems == 2       \* longest items array handed to batch
MaxChunks == 2      \* most 'data' events one document stream emits
MaxRenders == 2     \* most render calls made with one (data, type, options)
MaxGens == 2        \* most generate() calls made on the result of build()
MaxSets == 1        \* most setter calls made on the builder
MaxCalls == 2       \* longest chain of fluent calls made on one builder

----------------------------------------------------------------------------
(* JavaScript values *)

Range(s) == {s[i] : i \in 1..Len(s)}

\* a data value: s holds the code units of a string, or of String(n) for a number
DStr(codes) == [tag |-> "string", s |-> codes]
DNum(codes) == [tag |-> "number", s |-> codes]
DUndef == [tag |-> "undefined", s |-> <<>>]
DNull == [tag |-> "null", s |-> <<>>]

\* a name value (type or format)
NStr(name) == [tag |-> "string", s |-> name]
NUndef == [tag |-> "undefined", s |-> ""]
NNull == [tag |-> "null", s |-> ""]

\* ToBoolean of a data value: "", 0, null and undefined are falsy
DTruthy(d) ==
    CASE d.tag = "string" -> d.s # <<>>
      [] d.tag = "number" -> d.s # <<48>>
      [] OTHER -> FALSE

\* ToBoolean of a name value
NTruthy(n) == n.tag = "string" /\ n.s # ""

\* a string literal of decimal digits
Digits(ds) == [i \in 1..Len(ds) |-> 48 + ds[i]]

\* an Error message: the template literal of the source and the values
\* substituted into it
Msg(text, name, num, list, cause) ==
    [text |-> text, name |-> name, num |-> num, list |-> list, cause |-> cause]

Text(text) == Msg(text, NUndef, 0, <<>>, "")

NoMsg == Text("")

----------------------------------------------------------------------------
(* Type registry: src/src/types/BarcodeTypes.js *)

TYPES == <<
    "code128", "code128a", "code128b", "code128c", "code128auto",
    "code39", "code39extended", "code39checksum", "code39auto",
    "code93", "code25", "code25auto", "code32",
    "standard25", "standard25checksum",
    "interleaved25", "interleaved25checksum", "interleaved25auto",
    "msi", "msichecksum", "msiauto",
    "ean13", "ean8", "ean2", "ean5", "upca", "upce", "itf14",
    "postnet", "planet", "rms4cc", "kix", "imb",
    "codabar", "code11", "pharmacode", "pharmacodetwotracks",
    "qrcode", "datamatrix", "aztec", "pdf417", "microqr", "maxicode",
    "code16k", "code49" >>

BarcodeTypes_getAll == TYPES

\* CATEGORIES.MATRIX_2D
MATRIX_2D == << "qrcode", "datamatrix", "aztec", "pdf417", "microqr", "maxicode" >>

\* Object.values(TYPES).includes(type): only a string can be found
BarcodeTypes_isValid(type) ==
    type.tag = "string" /\ type.s \in Range(TYPES)

Config(min, max, charset) ==
    [minLength |-> min, maxLength |-> max, charset |-> charset]

configs ==
    [code128 |-> Config(1, 80, "ASCII"),
     code128a |-> Config(1, 80, "ASCII A"),
     code128b |-> Config(1, 80, "ASCII B"),
     code128c |-> Config(2, 80, "Numeric"),
     code39 |-> Config(1, 43, "0-9, A-Z, space, -.$/+%"),
     code39extended |-> Config(1, 43, "Extended ASCII"),
     code93 |-> Config(1, 43, "0-9, A-Z, -.$/+%"),
     ean13 |-> Config(12, 13, "Numeric"),
     ean8 |-> Config(7, 8, "Numeric"),
     upca |-> Config(11, 12, "Numeric"),
     upce |-> Config(6, 8, "Numeric"),
     qrcode |-> Config(1, 2953, "Unicode"),
     datamatrix |-> Config(1, 2335, "Unicode"),
     pdf417 |-> Config(1, 1850, "Unicode")]

\* the members configs inherits from Object.prototype: each is a function or
\* an object, so each is truthy
ObjectPrototype ==
    {"constructor", "toString", "toLocaleString", "valueOf", "hasOwnProperty",
     "isPrototypeOf", "propertyIsEnumerable", "__proto__", "__defineGetter__",
     "__defineSetter__", "__lookupGetter__", "__lookupSetter__"}

\* the length read from an object that has no such property
NoLength == 0 - 1

\* an inherited member returned as if it were a configuration: it has none
\* of the three properties; charset names the member
Inherited(member) == Config(NoLength, NoLength, member)

\* configs[type] || fallback: the property read follows the prototype chain
BarcodeTypes_getConfig(type) ==
    IF type.s \in DOMAIN configs THEN configs[type.s]
    ELSE IF type.tag = "string" /\ type.s \in ObjectPrototype
    THEN Inherited(type.s)
    ELSE Config(1, 100, "Unknown")

----------------------------------------------------------------------------
(* Format registry: src/src/renderers/RenderFormats.js *)

FORMATS == << "png", "svg", "html", "pdf", "jpg", "jpeg" >>

RenderFormats_getAll == FORMATS

RenderFormats_isValid(format) ==
    format.tag = "string" /\ format.s \in Range(FORMATS)

MIME_TYPES ==
    [f \in Range(FORMATS) |->
        CASE f = "png" -> "image/png"
          [] f = "svg" -> "image/svg+xml"
          [] f = "html" -> "text/html"
          [] f = "pdf" -> "application/pdf"
          [] f = "jpg" -> "image/jpeg"
          [] f = "jpeg" -> "image/jpeg"]

\* this.MIME_TYPES[format] || "application/octet-stream", format a string: a
\* name Object.prototype defines finds that member, which is truthy
RenderFormats_getMimeType(format) ==
    IF format \in DOMAIN MIME_TYPES THEN MIME_TYPES[format]
    ELSE IF format \in ObjectPrototype THEN "Object.prototype." \o format
    ELSE "application/octet-stream"

----------------------------------------------------------------------------
(* Validator: src/unnamed/part_004 *)

IsDigit(c) == c \in 48..57
IsUpper(c) == c \in 65..90
IsLower(c) == c \in 97..122
IsAscii(c) == c \in 0..127

\* the class \s of a JavaScript regular expression
IsSpace(c) ==
    c \in {9, 10, 11, 12, 13, 32, 160, 5760, 8232, 8233, 8239, 8287, 12288, 65279}
    \/ c \in 8192..8202

\* patterns.numeric etc.: each is anchored, so it tests every character
IsCode39Char(c) ==
    IsUpper(c) \/ IsDigit(c) \/ IsSpace(c) \/ c \in {45, 46, 36, 47, 43, 37}

IsAlnum(c) == IsUpper(c) \/ IsLower(c) \/ IsDigit(c)

pattern_code39(data) == Len(data) >= 1 /\ \A i \in 1..Len(data) : IsCode39Char(data[i])
pattern_alphanumeric(data) == Len(data) >= 1 /\ \A i \in 1..Len(data) : IsAlnum(data[i])
pattern_ascii(data) == Len(data) >= 1 /\ \A i \in 1..Len(data) : IsAscii(data[i])
pattern_ean13(data) == Len(data) \in 12..13 /\ \A i \in 1..Len(data) : IsDigit(data[i])
pattern_ean8(data) == Len(data) \in 7..8 /\ \A i \in 1..Len(data) : IsDigit(data[i])
pattern_upca(data) == Len(data) \in 11..12 /\ \A i \in 1..Len(data) : IsDigit(data[i])
pattern_upce(data) == Len(data) \in 6..8 /\ \A i \in 1..Len(data) : IsDigit(data[i])

\* NaN, which no digit arithmetic produces
NaN == 0 - 1

\* parseInt of one character
parseInt(c) == IF IsDigit(c) THEN c - 48 ELSE NaN

\* EANWeight with the two weights exchanged
EANWeight_swapped(i) == IF i % 2 = 0 THEN 3 ELSE 1

\* the weight calculateEANCheckDigit gives to the digit at 0-based index i
EANWeight(i) == IF i % 2 = 0 THEN 1 ELSE 3

RECURSIVE EANSum(_, _)
\* the value of sum after the first n iterations of the loop
EANSum(data, n) ==
    IF n = 0 THEN 0
    ELSE EANSum(data, n - 1) + parseInt(data[n]) * EANWeight(n - 1)

\* calculateEANCheckDigit returning sum % 10 instead of its complement
calculateEANCheckDigit_noComplement(data) ==
    IF \E i \in 1..Len(data) : parseInt(data[i]) = NaN THEN NaN
    ELSE EANSum(data, Len(data)) % 10

calculateEANCheckDigit(data) ==
    IF \E i \in 1..Len(data) : parseInt(data[i]) = NaN THEN NaN
    ELSE (10 - (EANSum(data, Len(data)) % 10)) % 10

\* the {valid, error} record a per-type checker returns
Ok == [valid |-> TRUE, error |-> NoMsg]
Bad(text) == [valid |-> FALSE, error |-> Text(text)]

validateCode128(data, type) ==
    IF ~pattern_ascii(data) THEN Bad("Code 128 supports ASCII characters only")
    ELSE Ok

validateCode39(data, type) ==
    IF type = "code39extended"
    THEN IF ~pattern_ascii(data)
         THEN Bad("Extended Code 39 supports ASCII characters only")
         ELSE Ok
    ELSE IF ~pattern_code39(data)
         THEN Bad("Code 39 supports characters: A-Z, 0-9, space, -.$/+%")
         ELSE Ok

validateCode93(data) ==
    IF ~pattern_alphanumeric(data)
    THEN Bad("Code 93 supports alphanumeric characters only")
    ELSE Ok

\* validateEAN13 without the check-digit test
validateEAN13_noCheckDigit(data) ==
    IF ~pattern_ean13(data) THEN Bad("EAN-13 must be 12 or 13 digits")
    ELSE Ok

validateEAN13(data) ==
    IF ~pattern_ean13(data) THEN Bad("EAN-13 must be 12 or 13 digits")
    ELSE IF Len(data) = 13
            /\ parseInt(data[13]) # calculateEANCheckDigit(SubSeq(data, 1, 12))
         THEN Bad("Invalid EAN-13 check digit")
         ELSE Ok

validateEAN8(data) ==
    IF ~pattern_ean8(data) THEN Bad("EAN-8 must be 7 or 8 digits")
    ELSE IF Len(data) = 8
            /\ parseInt(data[8]) # calculateEANCheckDigit(SubSeq(data, 1, 7))
         THEN Bad("Invalid EAN-8 check digit")
         ELSE Ok

validateUPCA(data) ==
    IF ~pattern_upca(data) THEN Bad("UPC-A must be 11 or 12 digits") ELSE Ok

validateUPCE(data) ==
    IF ~pattern_upce(data) THEN Bad("UPC-E must be 6 to 8 digits") ELSE Ok

validateQRCode(data) ==
    IF Len(data) = 0 THEN Bad("QR Code data cannot be empty") ELSE Ok

validateDataMatrix(data) ==
    IF Len(data) = 0 THEN Bad("Data Matrix data cannot be empty") ELSE Ok

validatePDF417(data) ==
    IF Len(data) = 0 THEN Bad("PDF417 data cannot be empty") ELSE Ok

\* data: code units of a string; type: a registered name
validateByType(data, type) ==
    CASE type \in {"code128", "code128a", "code128b", "code128c", "code128auto"} ->
            validateCode128(data, type)
      [] type \in {"code39", "code39extended", "code39checksum", "code39auto"} ->
            validateCode39(data, type)
      [] type = "code93" -> validateCode93(data)
      [] type = "ean13" -> validateEAN13(data)
      [] type = "ean8" -> validateEAN8(data)
      [] type = "upca" -> validateUPCA(data)
      [] type = "upce" -> validateUPCE(data)
      [] type = "qrcode" -> validateQRCode(data)
      [] type = "datamatrix" -> validateDataMatrix(data)
      [] type = "pdf417" -> validatePDF417(data)
      [] OTHER ->
            IF Len(data) > 0 THEN Ok ELSE Bad("Data cannot be empty")

\* the object validate returns; a field the object lacks is undefined
Invalid(error) ==
    [valid |-> FALSE, error |-> error, data |-> DUndef, type |-> NUndef,
     length |-> NaN, charset |-> ""]

Valid(data, type, charset) ==
    [valid |-> TRUE, error |-> NoMsg, data |-> data, type |-> type,
     length |-> Len(data.s), charset |-> charset]

\* the first length bound the data breaks, as validate reports it
LengthCheck(data, config) ==
    IF Len(data) < config.minLength
    THEN Msg("Data too short. Minimum length: ${config.minLength}",
             NUndef, config.minLength, <<>>, "")
    ELSE IF Len(data) > config.maxLength
    THEN Msg("Data too long. Maximum length: ${config.maxLength}",
             NUndef, config.maxLength, <<>>, "")
    ELSE NoMsg

\* validate running the per-type checker before the length checks
validate_charsetFirst(data, type) ==
    IF ~DTruthy(data) \/ data.tag # "string"
    THEN Invalid(Text("Data must be a non-empty string"))
    ELSE IF ~BarcodeTypes_isValid(type)
    THEN Invalid(Msg("Invalid barcode type: ${type}", type, 0, <<>>, ""))
    ELSE LET config == BarcodeTypes_getConfig(type)
             lengthError == LengthCheck(data.s, config)
             validationResult == validateByType(data.s, type.s)
         IN  IF ~validationResult.valid
             THEN Invalid(validationResult.error)
             ELSE IF lengthError # NoMsg THEN Invalid(lengthError)
             ELSE Valid(data, type, config.charset)

validate(data, type) ==
    IF ~DTruthy(data) \/ data.tag # "string"
    THEN Invalid(Text("Data must be a non-empty string"))
    ELSE IF ~BarcodeTypes_isValid(type)
    THEN Invalid(Msg("Invalid barcode type: ${type}", type, 0, <<>>, ""))
    ELSE LET config == BarcodeTypes_getConfig(type)
             lengthError == LengthCheck(data.s, config)
             validationResult == validateByType(data.s, type.s)
         IN  IF lengthError # NoMsg THEN Invalid(lengthError)
             ELSE IF ~validationResult.valid
             THEN Invalid(validationResult.error)
             ELSE Valid(data, type, config.charset)

----------------------------------------------------------------------------
(* Renderers, as the service sees them.  What the external libraries do    *)
(* (JsBarcode, canvas, pdfkit) is a choice e the environment makes:        *)
(*   "ok"    every library call returns                                    *)
(*   "fail"  symbol generation or drawing throws                           *)
(*   "ctor"  the PDFDocument constructor throws                            *)
(***************************************************************************)

Ext == {"ok", "fail", "ctor"}

ChunkBytes == {17, 42}

\* what render returns: via is the path that produced it, ref the number of
\* the PDF document whose promise it is (0 when it is not a promise)
Artifact(backend, via, data, type, ref) ==
    [backend |-> backend, via |-> via, data |-> data, type |-> type, ref |-> ref]

NoArtifact == Artifact("", "", DUndef, NUndef, 0)

\* an entry of the call log
ValidateCall(data, type, valid) ==
    [call |-> "validate", backend |-> "", data |-> data, type |-> type,
     valid |-> valid, ext |-> "ok"]

\* e: what the libraries did during the call
RenderCall(backend, data, type, e) ==
    [call |-> "render", backend |-> backend, data |-> data, type |-> type,
     valid |-> TRUE, ext |-> e]

\* the outcome of a call together with what it left behind
Returned(value, newPdfs) ==
    [kind |-> "return", value |-> value, error |-> NoMsg, pdfs |-> newPdfs]

Threw(error) ==
    [kind |-> "throw", value |-> NoArtifact, error |-> error, pdfs |-> <<>>]

Wrapped(text) == Msg(text, NUndef, 0, <<>>, "library failure")

\* the error a library threw, or a stream emitted, as it is
Raw == Msg("${error.message}", NUndef, 0, <<>>, "library failure")

PNGRenderer_render(data, type, e) ==
    IF e = "fail" THEN Threw(Wrapped("PNG rendering failed: ${error.message}"))
    ELSE Returned(Artifact("png", "primary", data, type, 0), <<>>)

\* the catch block of the primary path returns the manual construction
SVGRenderer_render(data, type, e) ==
    IF e = "fail" THEN Returned(Artifact("svg", "manual", data, type, 0), <<>>)
    ELSE Returned(Artifact("svg", "primary", data, type, 0), <<>>)

HTMLRenderer_render(data, type, e) ==
    Returned(Artifact("html", "primary", data, type, 0), <<>>)

\* a PDF document: what was done to it, the state of its stream, the chunks
\* the stream emitted, the chunks its 'data' listener collected, and the
\* state of the promise render returned with its value or rejection reason
PdfDoc(data, type, drawn, promise) ==
    [data |-> data, type |-> type, drawn |-> drawn, finalized |-> drawn,
     stream |-> "open", emitted |-> <<>>, chunks |-> <<>>, promise |-> promise,
     value |-> <<>>, reason |-> IF promise = "rejected" THEN Raw ELSE NoMsg]

\* ref: the number the new document gets.  A throw inside the Promise
\* executor rejects the promise; only the constructor throws into the try.
PDFRenderer_render(data, type, e, ref) ==
    CASE e = "ctor" -> Threw(Wrapped("PDF rendering failed: ${error.message}"))
      [] e = "fail" ->
            Returned(Artifact("pdf", "promise", data, type, ref),
                     <<PdfDoc(data, type, FALSE, "rejected")>>)
      [] OTHER ->
            Returned(Artifact("pdf", "promise", data, type, ref),
                     <<PdfDoc(data, type, TRUE, "pending")>>)

----------------------------------------------------------------------------
(* BarcodeService: src/src/services/BarcodeService.js *)

\* this.renderers: the formats that have a renderer
renderers == {"png", "svg", "html", "pdf"}

\* a default parameter value replaces undefined only
Default(n, name) == IF n.tag = "undefined" THEN NStr(name) ELSE n

\* a || name
OrElse(n, name) == IF NTruthy(n) THEN n ELSE NStr(name)

Dispatch(data, type, format, e, ref) ==
    CASE format.s = "png" -> PNGRenderer_render(data, type, e)
      [] format.s = "svg" -> SVGRenderer_render(data, type, e)
      [] format.s = "html" -> HTMLRenderer_render(data, type, e)
      [] format.s = "pdf" -> PDFRenderer_render(data, type, e, ref)

\* the outcome of generate with the calls it made into the validator and the
\* renderers, in order
WithCalls(outcome, madeCalls) ==
    [kind |-> outcome.kind, value |-> outcome.value, error |-> outcome.error,
     pdfs |-> outcome.pdfs, calls |-> madeCalls]

\* generate dispatching whatever the Validator returned
generate_ignoresValidation(data, type0, format0, e, ref) ==
    LET type == Default(type0, "code128")
        format == Default(format0, "png")
        validation == validate(data, type)
        validated == <<ValidateCall(data, type, validation.valid)>>
    IN  IF ~DTruthy(data) \/ data.tag # "string"
        THEN WithCalls(Threw(Text("Data must be a non-empty string")), <<>>)
        ELSE IF ~BarcodeTypes_isValid(type)
        THEN WithCalls(
                Threw(Msg("Invalid barcode type: ${type}. Supported types: ${list}",
                          type, 0, BarcodeTypes_getAll, "")), <<>>)
        ELSE IF ~RenderFormats_isValid(format)
        THEN WithCalls(
                Threw(Msg("Invalid format: ${format}. Supported formats: ${list}",
                          format, 0, RenderFormats_getAll, "")), <<>>)
        ELSE IF format.s \notin renderers
        THEN WithCalls(
                Threw(Msg("No renderer available for format: ${format}",
                          format, 0, <<>>, "")),
                validated)
        ELSE WithCalls(Dispatch(data, type, format, e, ref),
                       validated \o <<RenderCall(format.s, data, type, e)>>)

\* generate testing the type before the data
generate_typeFirst(data, type0, format0, e, ref) ==
    LET type == Default(type0, "code128")
        format == Default(format0, "png")
        validation == validate(data, type)
        validated == <<ValidateCall(data, type, validation.valid)>>
    IN  IF ~BarcodeTypes_isValid(type)
        THEN WithCalls(
                Threw(Msg("Invalid barcode type: ${type}. Supported types: ${list}",
                          type, 0, BarcodeTypes_getAll, "")), <<>>)
        ELSE IF ~DTruthy(data) \/ data.tag # "string"
        THEN WithCalls(Threw(Text("Data must be a non-empty string")), <<>>)
        ELSE IF ~RenderFormats_isValid(format)
        THEN WithCalls(
                Threw(Msg("Invalid format: ${format}. Supported formats: ${list}",
                          format, 0, RenderFormats_getAll, "")), <<>>)
        ELSE IF ~validation.valid
        THEN WithCalls(
                Threw(Msg("Invalid data for ${type}: ${validation.error}",
                          type, validation.error.num, <<>>, validation.error.text)),
                validated)
        ELSE IF format.s \notin renderers
        THEN WithCalls(
                Threw(Msg("No renderer available for format: ${format}",
                          format, 0, <<>>, "")),
                validated)
        ELSE WithCalls(Dispatch(data, type, format, e, ref),
                       validated \o <<RenderCall(format.s, data, type, e)>>)

generate(data, type0, format0, e, ref) ==
    LET type == Default(type0, "code128")
        format == Default(format0, "png")
        validation == validate(data, type)
        validated == <<ValidateCall(data, type, validation.valid)>>
    IN  IF ~DTruthy(data) \/ data.tag # "string"
        THEN WithCalls(Threw(Text("Data must be a non-empty string")), <<>>)
        ELSE IF ~BarcodeTypes_isValid(type)
        THEN WithCalls(
                Threw(Msg("Invalid barcode type: ${type}. Supported types: ${list}",
                          type, 0, BarcodeTypes_getAll, "")), <<>>)
        ELSE IF ~RenderFormats_isValid(format)
        THEN WithCalls(
                Threw(Msg("Invalid format: ${format}. Supported formats: ${list}",
                          format, 0, RenderFormats_getAll, "")), <<>>)
        ELSE IF ~validation.valid
        THEN WithCalls(
                Threw(Msg("Invalid data for ${type}: ${validation.error}",
                          type, validation.error.num, <<>>, validation.error.text)),
                validated)
        ELSE IF format.s \notin renderers
        THEN WithCalls(
                Threw(Msg("No renderer available for format: ${format}",
                          format, 0, <<>>, "")),
                validated)
        ELSE WithCalls(Dispatch(data, type, format, e, ref),
                       validated \o <<RenderCall(format.s, data, type, e)>>)

\* an element of the items array: an object with the three properties (each
\* possibly undefined), or null, undefined or a number
Item(data, type, format) ==
    [tag |-> "object", data |-> data, type |-> type, format |-> format]

Primitive(tag) ==
    [tag |-> tag, data |-> DUndef, type |-> NUndef, format |-> NUndef]

\* an element of the array batch returns
BatchResult(index, success, result, error, data, type, format) ==
    [index |-> index, success |-> success, result |-> result, error |-> error,
     data |-> data, type |-> type, format |-> format]

\* what batch has done after an element: whether map was left by a throw
\* (with the error thrown), the results so far, and the calls and PDF
\* documents so far
BatchState(aborted, error, res, madeCalls, docs) ==
    [aborted |-> aborted, error |-> error, results |-> res,
     calls |-> madeCalls, pdfs |-> docs]

\* the callback putting what generate returned in the data property too
BatchItem_dataIsResult(st, item, index, e) ==
    IF item.tag \in {"null", "undefined"}
    THEN BatchState(TRUE,
                    Msg("Cannot read properties of ${item} (reading 'data')",
                        [tag |-> item.tag, s |-> ""], 0, <<>>, ""),
                    st.results, st.calls, st.pdfs)
    ELSE LET g == generate(item.data, item.type, item.format, e, Len(st.pdfs) + 1)
             r == IF g.kind = "return"
                  THEN BatchResult(index, TRUE, g.value, NoMsg, g.value,
                                   Default(item.type, "code128"),
                                   Default(item.format, "png"))
                  ELSE BatchResult(index, FALSE, NoArtifact, g.error, item.data,
                                   OrElse(item.type, "code128"),
                                   OrElse(item.format, "png"))
         IN  BatchState(FALSE, NoMsg, Append(st.results, r),
                        st.calls \o g.calls, st.pdfs \o g.pdfs)

\* the callback of items.map for the element at 0-based index, run in state st.
\* Neither the destructuring in the try block nor item.data in the catch
\* block can read a property of null or undefined: the TypeError of the
\* catch block leaves map.
BatchItem(st, item, index, e) ==
    IF item.tag \in {"null", "undefined"}
    THEN BatchState(TRUE,
                    Msg("Cannot read properties of ${item} (reading 'data')",
                        [tag |-> item.tag, s |-> ""], 0, <<>>, ""),
                    st.results, st.calls, st.pdfs)
    ELSE LET g == generate(item.data, item.type, item.format, e, Len(st.pdfs) + 1)
             r == IF g.kind = "return"
                  THEN BatchResult(index, TRUE, g.value, NoMsg, item.data,
                                   Default(item.type, "code128"),
                                   Default(item.format, "png"))
                  ELSE BatchResult(index, FALSE, NoArtifact, g.error, item.data,
                                   OrElse(item.type, "code128"),
                                   OrElse(item.format, "png"))
         IN  BatchState(FALSE, NoMsg, Append(st.results, r),
                        st.calls \o g.calls, st.pdfs \o g.pdfs)

RECURSIVE BatchRun(_, _, _)
\* items.map over the first n elements, left to right
BatchRun(items, ext, n) ==
    IF n = 0 THEN BatchState(FALSE, NoMsg, <<>>, <<>>, <<>>)
    ELSE LET st == BatchRun(items, ext, n - 1)
         IN  IF st.aborted THEN st
             ELSE BatchItem(st, items[n], n - 1, ext[n])

\* isArray: whether the argument is an array
batch(isArray, items, ext) ==
    IF ~isArray
    THEN BatchState(TRUE, Text("Items must be an array"), <<>>, <<>>, <<>>)
    ELSE BatchRun(items, ext, Len(items))

----------------------------------------------------------------------------
(* What the renderers draw without an external library: the markup of the   *)
(* HTMLRenderer, the manual SVG of the SVGRenderer and the drawing          *)
(* operations of the PDFRenderer.  A string built from template literals is *)
(* the record of the values substituted into it, element by element.        *)
(***************************************************************************)

\* the options argument of render: id is NUndef when the caller gives none,
\* width is the default 2 when the caller gives none
Options(id, displayValue, height, width) ==
    [id |-> id, displayValue |-> displayValue, height |-> height, width |-> width]

\* { ...this.defaultOptions, ...options } for the properties the drawing reads
RenderOptions(options) ==
    [id |-> IF options.id = NUndef THEN NNull ELSE options.id,
     className |-> "barcode",
     displayValue |-> options.displayValue,
     height |-> options.height,
     width |-> options.width,
     marginLeft |-> 10,
     marginTop |-> 10,
     textMargin |-> 2]

\* data.charCodeAt(i) for a 0-based i
charCodeAt(data, i) == data[i + 1]

RECURSIVE BarCount(_, _)
\* the number of bars the first n characters get: (char % 5) + 1 each
BarCount(data, n) ==
    IF n = 0 THEN 0 ELSE BarCount(data, n - 1) + (charCodeAt(data, n - 1) % 5) + 1

\* the x (or running offset) of every bar: currentX advances by step per bar
BarsAt(data, startX, step) ==
    [k \in 1..BarCount(data, Len(data)) |-> startX + (k - 1) * step]

NoGrid == <<>>

\* the body of a drawing: a grid of cells (row-major booleans), a single
\* square, or a run of bars
Body(kind, cells, bars, barWidth, barHeight) ==
    [kind |-> kind, cells |-> cells, bars |-> bars, barWidth |-> barWidth,
     barHeight |-> barHeight]

\* the container id: options.id, else `barcode-${Date.now()}-${random}`
GivenId(id) == [s |-> id.s, now |-> 0, rnd |-> 0]
GeneratedId(now, rnd) == [s |-> "barcode-${now}-${rnd}", now |-> now, rnd |-> rnd]

\* the 400 cells in document order; cell i is filled when
\* (data.charCodeAt(i % data.length) + i) % 2 === 0
HTMLRenderer_createQRCodeHTML(data, options) ==
    Body("qr-code",
         [k \in 1..400 |->
             (charCodeAt(data, (k - 1) % Len(data)) + (k - 1)) % 2 = 0],
         <<>>, 0, 0)

\* options.width || 2
BarWidth(options) == IF options.width = 0 THEN 2 ELSE options.width

\* each bar is barWidth wide and has a right margin of barWidth
HTMLRenderer_createLinearBarcodeHTML(data, type, options) ==
    LET barWidth == BarWidth(options)
    IN  Body("linear-barcode", NoGrid, BarsAt(data, 0, 2 * barWidth), barWidth,
             options.height)

Markup(id, class, body, text, cssId) ==
    [id |-> id, class |-> class, body |-> body, text |-> text, cssId |-> cssId]

\* createHTMLStructure generating an id whatever options.id is
HTMLRenderer_createHTMLStructure_generatedId(data, type, options, now, rnd) ==
    LET containerId == GeneratedId(now, rnd)
    IN  Markup(containerId, options.className,
               IF type = "qrcode"
               THEN HTMLRenderer_createQRCodeHTML(data, options)
               ELSE HTMLRenderer_createLinearBarcodeHTML(data, type, options),
               IF options.displayValue THEN data ELSE <<>>,
               containerId)

\* now and rnd: what Date.now() and Math.random() return if they are called
HTMLRenderer_createHTMLStructure(data, type, options, now, rnd) ==
    LET containerId == IF NTruthy(options.id) THEN GivenId(options.id)
                       ELSE GeneratedId(now, rnd)
    IN  Markup(containerId, options.className,
               IF type = "qrcode"
               THEN HTMLRenderer_createQRCodeHTML(data, options)
               ELSE HTMLRenderer_createLinearBarcodeHTML(data, type, options),
               IF options.displayValue THEN data ELSE <<>>,
               containerId)

\* one filled square of side min(width, height) - 40
SVGRenderer_createQRCodeSVG(data, width, height, options) ==
    LET size == (IF width < height THEN width ELSE height) - 40
    IN  Body("square", NoGrid, <<(width - size) \div 2>>, size, size)

\* createLinearBarcodeSVG making the bars as tall as the whole image
SVGRenderer_createLinearBarcodeSVG_fullHeight(data, width, height, options) ==
    LET barWidth == 2
        startX == 20
    IN  Body("bars", NoGrid, BarsAt(data, startX, barWidth * 2), barWidth, height)

SVGRenderer_createLinearBarcodeSVG(data, width, height, options) ==
    LET barWidth == 2
        barHeight == height - (IF options.displayValue THEN 30 ELSE 0)
        startX == 20
    IN  Body("bars", NoGrid, BarsAt(data, startX, barWidth * 2), barWidth, barHeight)

\* the <svg> element: its size and its children in document order, the
\* background <rect> with its size, the body and the <text> if there is one
Svg(width, height, body, text) ==
    [width |-> width, height |-> height,
     children |-> <<"rect", body.kind>> \o (IF text = <<>> THEN <<>> ELSE <<"text">>),
     background |-> [width |-> width, height |-> height],
     body |-> body, text |-> text, textX |-> width \div 2]

SVGRenderer_createManualSVG(data, type, options) ==
    LET renderOptions == RenderOptions(options)
        width == 300
        height == renderOptions.height + (IF renderOptions.displayValue THEN 30 ELSE 0)
    IN  Svg(width, height,
            IF type = "qrcode"
            THEN SVGRenderer_createQRCodeSVG(data, width, height, renderOptions)
            ELSE SVGRenderer_createLinearBarcodeSVG(data, width, height, renderOptions),
            IF renderOptions.displayValue THEN data ELSE <<>>)

\* the cells of the 20 x 20 grid, row after row; cell (row, col) is filled
\* when (data.charCodeAt((row * cells + col) % data.length) + row + col) % 2 === 0
PDFRenderer_addQRCodeToPDF(data, x, y, options) ==
    Body("grid",
         [k \in 1..400 |->
             LET row == (k - 1) \div 20
                 col == (k - 1) % 20
             IN  (charCodeAt(data, (row * 20 + col) % Len(data)) + row + col) % 2 = 0],
         <<>>, 0, 0)

\* addLinearBarcodeToPDF advancing currentX by barWidth only
PDFRenderer_addLinearBarcodeToPDF_noGap(data, type, x, y, options) ==
    LET barWidth == BarWidth(options)
    IN  Body("bars", NoGrid, BarsAt(data, x, barWidth), barWidth, options.height)

PDFRenderer_addLinearBarcodeToPDF(data, type, x, y, options) ==
    LET barWidth == BarWidth(options)
    IN  Body("bars", NoGrid, BarsAt(data, x, barWidth * 2), barWidth, options.height)

Drawing(body, text, textY) ==
    [body |-> body, text |-> text, textY |-> textY]

PDFRenderer_addBarcodeToPDF(data, type, options) ==
    LET x == options.marginLeft
        y == options.marginTop
    IN  Drawing(IF type = "qrcode"
                THEN PDFRenderer_addQRCodeToPDF(data, x, y, options)
                ELSE PDFRenderer_addLinearBarcodeToPDF(data, type, x, y, options),
                IF options.displayValue THEN data ELSE <<>>,
                IF options.displayValue
                THEN y + options.height + options.textMargin ELSE 0)

\* an entry of the render log: the backend, the time of the call and the output
Rendered(backend, at, out) == [backend |-> backend, at |-> at, out |-> out]

----------------------------------------------------------------------------
(* QrCodeBuilder and QrCodeResult: src/src/builders/QrCodeBuilder.js.  What   *)
(* QRCode.toDataURL, loadImage and the canvas do is a choice of the          *)
(* environment, "ok" or "fail", made when the awaited call settles.          *)
(***************************************************************************)

\* the properties of this.options that composition reads.  logoPath,
\* watermark and label are data values: null, a string of code units, or
\* (a caller passing a number) a number
QrOptions(size, logoPath, watermark, label) ==
    [size |-> size, logoPath |-> logoPath, watermark |-> watermark,
     watermarkPosition |-> "center", label |-> label, format |-> "png"]

\* 'a.png', 'DRAFT', 'v1.0', './w.png' and the number 7
LogoFile == DStr(<<97, 46, 112, 110, 103>>)
DraftText == DStr(<<68, 82, 65, 70, 84>>)
VersionText == DStr(<<118, 49, 46, 48>>)
WatermarkFile == DStr(<<46, 47, 119, 46, 112, 110, 103>>)
Seven == DNum(<<55>>)

\* watermark.includes('.') && watermark.includes('/')
IsImagePath(w) == 46 \in Range(w) /\ 47 \in Range(w)

\* one paint on a surface: the layer, the call that painted it and the
\* options.size it was laid out with
Layer(name, by, size) == [name |-> name, by |-> by, size |-> size]

\* the template literal `image/${this.options.format}`
ImageMime(format) == "image/" \o format

\* canvas.toBuffer(`image/${format}`): the surface as it is when it is
\* serialized, and the MIME type the serialization was asked for
Buffer(size, layers, format) ==
    [size |-> size, layers |-> layers, format |-> format, mime |-> ImageMime(format)]

\* `data:image/${format};base64,${base64}`, base64 encoding buffer
DataUri(format, buffer) ==
    [s |-> "data:${mime};base64,${base64}", format |-> format,
     mime |-> ImageMime(format), base64 |-> buffer]

NoBuffer == Buffer(0, <<>>, "")

NoUri == [s |-> "", format |-> "", mime |-> "", base64 |-> NoBuffer]

NoExt == [qr |-> "", logo |-> "", watermark |-> "", serialize |-> ""]

NoSeen == [logo |-> "", watermark |-> "", label |-> ""]

\* a generate() call in flight: where it is suspended, the canvas it created
\* (size and paints so far), what it logged, and how its promise settled.
\* called records the options at the time of the call, seen whether each
\* optional layer was configured when generate tested it ("yes" or "no"),
\* and ext what the environment did at each step; uri is what getDataUri
\* returned when it was getDataUri that made the call
Gen(o) ==
    [pc |-> "qr", size |-> o.size, layers |-> <<>>, warnings |-> <<>>,
     settled |-> "pending", error |-> NoMsg, artifact |-> NoBuffer,
     called |-> o, seen |-> NoSeen, ext |-> NoExt, uri |-> NoUri]

\* getDataUri after const buffer = await this.generate(), the options being o
QrCodeResult_getDataUri(gs, j, o) ==
    [gs EXCEPT ![j].uri = DataUri(o.format, gs[j].artifact)]

\* a drawing call on the context of call j painting the surface of call 1
Paint_sharedContext(gs, j, name, o) ==
    [gs EXCEPT ![1].layers = Append(@, Layer(name, j, o.size))]

\* a drawing call on ctx, the context of the canvas call j created
Paint(gs, j, name, o) ==
    [gs EXCEPT ![j].layers = Append(@, Layer(name, j, o.size))]

\* console.warn
Warn(gs, j, text) == [gs EXCEPT ![j].warnings = Append(@, text)]

Met(gs, j, step, e) == [gs EXCEPT ![j].ext[step] = e]

\* if (this.options.<layer>): what the test found
Saw(gs, j, layer, value) ==
    [gs EXCEPT ![j].seen[layer] = IF DTruthy(value) THEN "yes" ELSE "no"]

\* the catch block of generate
Reject(gs, j) ==
    [gs EXCEPT ![j].pc = "done", ![j].settled = "rejected",
               ![j].error = Wrapped("QR code generation failed: ${error.message}")]

\* the end of generate serializing the canvas before the label is painted
LabelStep_serializeFirst(gs, j, o, f) ==
    LET buffer == Buffer(gs[j].size, gs[j].layers, o.format)
        tested == Saw(gs, j, "label", o.label)
        painted == IF DTruthy(o.label) THEN Paint(tested, j, "label", o) ELSE tested
    IN  IF f = "fail" THEN Reject(Met(painted, j, "serialize", "fail"), j)
        ELSE [Met(painted, j, "serialize", "ok") EXCEPT
                ![j].pc = "done", ![j].settled = "resolved",
                ![j].artifact = buffer]

\* the end of generate: the label, then canvas.toBuffer; f is what addLabel
\* and toBuffer do
LabelStep(gs, j, o, f) ==
    LET tested == Saw(gs, j, "label", o.label)
        painted == IF DTruthy(o.label) THEN Paint(tested, j, "label", o) ELSE tested
    IN  IF f = "fail" THEN Reject(Met(painted, j, "serialize", "fail"), j)
        ELSE [Met(painted, j, "serialize", "ok") EXCEPT
                ![j].pc = "done", ![j].settled = "resolved",
                ![j].artifact = Buffer(painted[j].size, painted[j].layers, o.format)]

\* if (this.options.watermark) await this.addWatermark(ctx): addWatermark
\* runs up to its first await, or to its end for a text watermark; a
\* watermark that is not a string has no includes, which its catch logs
WatermarkStep(gs, j, o, f) ==
    LET tested == Saw(gs, j, "watermark", o.watermark)
    IN  IF ~DTruthy(o.watermark) THEN LabelStep(tested, j, o, f)
        ELSE IF o.watermark.tag # "string"
        THEN [Warn(Met(tested, j, "watermark", "fail"), j,
                   "Failed to add watermark: ${error.message}")
                EXCEPT ![j].pc = "afterWatermark"]
        ELSE IF IsImagePath(o.watermark.s)
        THEN [tested EXCEPT ![j].pc = "watermarkImage"]
        ELSE [Paint(Met(tested, j, "watermark", "ok"), j, "watermark", o)
                EXCEPT ![j].pc = "afterWatermark"]

\* if (this.options.logoPath) await this.addLogo(ctx)
LogoStep(gs, j, o, f) ==
    LET tested == Saw(gs, j, "logo", o.logoPath)
    IN  IF DTruthy(o.logoPath) THEN [tested EXCEPT ![j].pc = "logoImage"]
        ELSE WatermarkStep(tested, j, o, f)

\* generate() up to its first await: the canvas, the background, and the
\* call of QRCode.toDataURL
QrCodeResult_generate(gs, o) ==
    Paint(Append(gs, Gen(o)), Len(gs) + 1, "background", o)

\* QRCode.toDataURL settles: then loadImage(qrCodeDataURL) is awaited
QrCodeResult_onDataURL(gs, j, e) ==
    IF e = "fail" THEN Reject(Met(gs, j, "qr", "fail"), j)
    ELSE [gs EXCEPT ![j].pc = "qrImage"]

\* loadImage(qrCodeDataURL) settles: the symbol is drawn and generate goes on
\* to its next await
QrCodeResult_onQrImage(gs, j, o, e, f) ==
    IF e = "fail" THEN Reject(Met(gs, j, "qr", "fail"), j)
    ELSE LogoStep(Paint(Met(gs, j, "qr", "ok"), j, "symbol", o), j, o, f)

\* addLogo rethrowing what its try block caught
QrCodeResult_addLogo_rethrows(gs, j, o, e) ==
    IF e = "fail"
    THEN Reject(Met(gs, j, "logo", "fail"), j)
    ELSE [Paint(Met(gs, j, "logo", "ok"), j, "logo", o) EXCEPT ![j].pc = "afterLogo"]

\* loadImage(this.options.logoPath) settles inside addLogo: the logo is
\* drawn, or the failure of loading or drawing is logged
QrCodeResult_addLogo(gs, j, o, e) ==
    IF e = "fail"
    THEN [Warn(Met(gs, j, "logo", "fail"), j, "Failed to add logo: ${error.message}")
            EXCEPT ![j].pc = "afterLogo"]
    ELSE [Paint(Met(gs, j, "logo", "ok"), j, "logo", o) EXCEPT ![j].pc = "afterLogo"]

\* loadImage(this.options.watermark) settles inside addWatermark
QrCodeResult_addWatermark(gs, j, o, e) ==
    IF e = "fail"
    THEN [Warn(Met(gs, j, "watermark", "fail"), j,
               "Failed to add watermark: ${error.message}")
            EXCEPT ![j].pc = "afterWatermark"]
    ELSE [Paint(Met(gs, j, "watermark", "ok"), j, "watermark", o)
            EXCEPT ![j].pc = "afterWatermark"]

\* the properties of this.options that addWatermark and getWatermarkPosition
\* read; watermarkPosition is a name value (a string, undefined or null)
WmOptions(size, watermark, watermarkPosition) ==
    [size |-> size, watermark |-> watermark, watermarkPosition |-> watermarkPosition]

\* a coordinate pair; lengths on the surface are in eighths of a pixel, so
\* that size / 4 and (size - w) / 2 are whole numbers for every whole size.
\* via names the member of Object.prototype when the value the lookup
\* returned is not a pair at all (its x and y are undefined)
Anchor(x, y) == [x |-> x, y |-> y, via |-> ""]
NoCoord == 0 - 1
InheritedAnchor(member) == [x |-> NoCoord, y |-> NoCoord, via |-> member]

\* 10 pixels
Inset == 8 * 10

\* the object literal positions of getWatermarkPosition(size), this.options.size
\* being optionsSize
positions(optionsSize, size) ==
    LET far == optionsSize - size - Inset
        mid == (optionsSize - size) \div 2
    IN  ("top-left" :> Anchor(Inset, Inset))
        @@ ("top-right" :> Anchor(far, Inset))
        @@ ("bottom-left" :> Anchor(Inset, far))
        @@ ("bottom-right" :> Anchor(far, far))
        @@ ("center" :> Anchor(mid, mid))
        @@ ("top-center" :> Anchor(mid, Inset))
        @@ ("bottom-center" :> Anchor(mid, far))
        @@ ("left-center" :> Anchor(Inset, mid))
        @@ ("right-center" :> Anchor(far, mid))

\* positions[this.options.watermarkPosition] || positions.center: the key is
\* the position converted to a string, and the property read follows the
\* prototype chain
QrCodeResult_getWatermarkPosition(o, size) ==
    LET table == positions(8 * o.size, size)
        key == o.watermarkPosition
    IN  IF key.tag = "string" /\ key.s \in DOMAIN table THEN table[key.s]
        ELSE IF key.tag = "string" /\ key.s \in ObjectPrototype
        THEN InheritedAnchor(key.s)
        ELSE table["center"]

\* what addWatermark draws: an image of side size / 4, or the text, at the
\* anchor; a failure of loadImage or of the context is logged
Drawn(kind, size, at) == [kind |-> kind, size |-> size, at |-> at]
NotDrawn == Drawn("none", 0, Anchor(0, 0))

QrCodeResult_addWatermark_at(o, e) ==
    IF e = "fail" THEN Drawn("failed", 0, Anchor(0, 0))
    ELSE IF IsImagePath(o.watermark.s)
    THEN LET watermarkSize == 2 * o.size
         IN  Drawn("image", watermarkSize,
                   QrCodeResult_getWatermarkPosition(o, watermarkSize))
    ELSE Drawn("text", 0, QrCodeResult_getWatermarkPosition(o, 0))

\* The fluent interface stores what it is given: a value is the text of
\* the JavaScript literal that denotes it (a number, a quoted string, an
\* array, null), and Absent is a parameter the caller omits.
Absent == "undefined"

\* the literal of the constructor
defaults ==
    [data |-> "''", size |-> "300", margin |-> "10", errorCorrectionLevel |-> "'M'",
     foregroundColor |-> "[0, 0, 0]", backgroundColor |-> "[255, 255, 255]",
     logoPath |-> "null", logoSize |-> "60", label |-> "null", labelFont |-> "null",
     labelFontSize |-> "16", watermark |-> "null", watermarkPosition |-> "'center'",
     format |-> "'png'"]

\* a builder: its options object, the options it was constructed with and
\* the calls made on it, each with the value it returned (the index of a
\* builder)
Fluent(options, log) == [options |-> options, ctor |-> options, log |-> log]

FluentCall(method, args, ret) == [method |-> method, args |-> args, ret |-> ret]

\* new QrCodeBuilder(options): { ...defaults, ...options }; options holds the
\* properties the caller gives
QrCodeBuilder_constructor(options) ==
    Fluent([f \in DOMAIN defaults |->
               IF f \in DOMAIN options THEN options[f] ELSE defaults[f]], <<>>)

\* a default parameter value replaces an omitted (or undefined) argument
DefaultArg(a, value) == IF a = Absent THEN value ELSE a

\* a method of builder i that assigns newOptions' fields and returns ret
Chain(i, method, args, newOptions, ret) ==
    /\ Len(bld[i].log) < MaxCalls
    /\ bld' = [bld EXCEPT ![i].options = newOptions,
                          ![i].log = Append(@, FluentCall(method, args, ret))]
    /\ UNCHANGED notBld

QrCodeBuilder_data ==
    \E i \in 1..Len(bld), data \in {"'https://example.com'"} :
        Chain(i, "data", <<data>>, [bld[i].options EXCEPT !.data = data], i)

QrCodeBuilder_size ==
    \E i \in 1..Len(bld), size \in {"400"} :
        Chain(i, "size", <<size>>, [bld[i].options EXCEPT !.size = size], i)

QrCodeBuilder_margin ==
    \E i \in 1..Len(bld), margin \in {"20"} :
        Chain(i, "margin", <<margin>>, [bld[i].options EXCEPT !.margin = margin], i)

QrCodeBuilder_errorCorrectionLevel ==
    \E i \in 1..Len(bld), level \in {"'H'"} :
        Chain(i, "errorCorrectionLevel", <<level>>,
              [bld[i].options EXCEPT !.errorCorrectionLevel = level], i)

QrCodeBuilder_foregroundColor ==
    \E i \in 1..Len(bld), color \in {"[255, 0, 0]"} :
        Chain(i, "foregroundColor", <<color>>,
              [bld[i].options EXCEPT !.foregroundColor = color], i)

QrCodeBuilder_backgroundColor ==
    \E i \in 1..Len(bld), color \in {"[0, 0, 255]"} :
        Chain(i, "backgroundColor", <<color>>,
              [bld[i].options EXCEPT !.backgroundColor = color], i)

QrCodeBuilder_logoPath ==
    \E i \in 1..Len(bld), logoPath \in {"'a.png'"} :
        Chain(i, "logoPath", <<logoPath>>,
              [bld[i].options EXCEPT !.logoPath = logoPath], i)

QrCodeBuilder_logoSize ==
    \E i \in 1..Len(bld), logoSize \in {"40"} :
        Chain(i, "logoSize", <<logoSize>>,
              [bld[i].options EXCEPT !.logoSize = logoSize], i)

QrCodeBuilder_label ==
    \E i \in 1..Len(bld), label \in {"'DRAFT'"} :
        Chain(i, "label", <<label>>, [bld[i].options EXCEPT !.label = label], i)

QrCodeBuilder_labelFont ==
    \E i \in 1..Len(bld), fontPath \in {"'a.ttf'"}, fontSize \in {Absent, "20"} :
        Chain(i, "labelFont", <<fontPath, fontSize>>,
              [bld[i].options EXCEPT !.labelFont = fontPath,
                                     !.labelFontSize = DefaultArg(fontSize, "16")], i)

\* watermark assigning the position only when the caller gives one
QrCodeBuilder_watermark_keepsPosition ==
    \E i \in 1..Len(bld), watermark \in {"'v1.0'"}, position \in {Absent, "'top-left'"} :
        Chain(i, "watermark", <<watermark, position>>,
              [bld[i].options EXCEPT
                  !.watermark = watermark,
                  !.watermarkPosition = IF position = Absent THEN @ ELSE position], i)

QrCodeBuilder_watermark ==
    \E i \in 1..Len(bld), watermark \in {"'v1.0'"}, position \in {Absent, "'top-left'"} :
        Chain(i, "watermark", <<watermark, position>>,
              [bld[i].options EXCEPT
                  !.watermark = watermark,
                  !.watermarkPosition = DefaultArg(position, "'center'")], i)

QrCodeBuilder_format ==
    \E i \in 1..Len(bld), format \in {"'svg'", "'jpg'"} :
        Chain(i, "format", <<format>>, [bld[i].options EXCEPT !.format = format], i)

\* the constructor's defaults
DefaultQrOptions == QrOptions(300, DNull, DNull, DNull)

----------------------------------------------------------------------------
(* The facade BarcodeGenerator: src/index.js (the package's entry point, Node *)
(* branch) and src/unnamed/part_005 (the same class with other registry     *)
(* calls)                                                                    *)
(***************************************************************************)

\* the static methods the registry classes define
BarcodeTypesMethods ==
    {"getAll", "getByCategory", "getCategories", "isValid", "getConfig",
     "getDescription"}

RenderFormatsMethods ==
    {"getAll", "isValid", "getMimeType", "getExtension", "getDescription"}

\* a call the caller made and how it ended: the value it returned is in the
\* field of its type (bool, config, list or res), the error it threw in error
RCall(op, facade, threw, bool, config, list, res, error) ==
    [op |-> op, facade |-> facade, threw |-> threw, bool |-> bool,
     config |-> config, list |-> list, res |-> res, error |-> error]

ReturnedList(op, facade, list) ==
    RCall(op, facade, FALSE, FALSE, Config(0, 0, ""), list, Invalid(NoMsg), NoMsg)

\* Class.method() where the class may not define method: calling undefined
\* throws a TypeError
CallStatic(op, facade, class, methods, method, list) ==
    IF method \in methods THEN ReturnedList(op, facade, list)
    ELSE RCall(op, facade, TRUE, FALSE, Config(0, 0, ""), <<>>, Invalid(NoMsg),
               Msg("${class}.${method} is not a function", NStr(class), 0,
                   <<>>, method))

\* src/index.js
BarcodeGenerator_getBarcodeTypes ==
    CallStatic("getBarcodeTypes", "index.js", "BarcodeTypes", BarcodeTypesMethods,
               "getTypes", BarcodeTypes_getAll)

BarcodeGenerator_getRenderFormats ==
    CallStatic("getRenderFormats", "index.js", "RenderFormats",
               RenderFormatsMethods, "getFormats", RenderFormats_getAll)

\* getWatermarkPositions with 'left-center' spelt 'middle-left'
BarcodeGenerator_getWatermarkPositions_misnamed ==
    ReturnedList("getWatermarkPositions", "index.js",
        << "top-left", "top-center", "top-right", "middle-left", "center",
           "right-center", "bottom-left", "bottom-center", "bottom-right" >>)

BarcodeGenerator_getWatermarkPositions ==
    ReturnedList("getWatermarkPositions", "index.js",
        << "top-left", "top-center", "top-right", "left-center", "center",
           "right-center", "bottom-left", "bottom-center", "bottom-right" >>)

\* barcodeService.validate(data, type), which is this.validator.validate
BarcodeGenerator_validate(data, type) ==
    RCall("validate", "index.js", FALSE, FALSE, Config(0, 0, ""), <<>>,
          validate(data, type), NoMsg)

\* src/unnamed/part_005
Part005_getBarcodeTypes ==
    CallStatic("getBarcodeTypes", "part_005", "BarcodeTypes", BarcodeTypesMethods,
               "getAll", BarcodeTypes_getAll)

Part005_getRenderFormats ==
    CallStatic("getRenderFormats", "part_005", "RenderFormats",
               RenderFormatsMethods, "getAll", RenderFormats_getAll)

Part005_getWatermarkPositions ==
    ReturnedList("getWatermarkPositions", "part_005",
        << "top-left", "top-right", "bottom-left", "bottom-right", "center",
           "top-center", "bottom-center", "left-center", "right-center" >>)

Part005_validate(data, type) ==
    RCall("validate", "part_005", FALSE, FALSE, Config(0, 0, ""), <<>>,
          validate(data, type), NoMsg)

NoRenderRequest == [data |-> <<>>, type |-> "", options |-> Options(NUndef, TRUE, 0, 0)]
\* the builder variables when no builder is constructed
NoOptions == QrOptions(0, DUndef, DUndef, DUndef)
NotBuilt == [done |-> FALSE, options |-> NoOptions]

----------------------------------------------------------------------------
(* Calls of the Validator on its own: one (data, type) pair per behaviour *)

Request(op, data, type, format, isArray, items) ==
    [op |-> op, data |-> data, type |-> type, format |-> format,
     isArray |-> isArray, items |-> items]

NoReq == Request("none", DUndef, NUndef, NUndef, FALSE, <<>>)

NoOutcome == [kind |-> "none", value |-> NoArtifact, error |-> NoMsg]

ServiceIdle ==
    /\ req = NoReq
    /\ pc = "idle"
    /\ last = NoOutcome
    /\ results = <<>>
    /\ calls = <<>>
    /\ pdfs = <<>>

NoRCall == RCall("none", "", FALSE, FALSE, Config(0, 0, ""), <<>>, Invalid(NoMsg), NoMsg)

RegistryIdle ==
    /\ rIn = [type |-> NUndef, data |-> DUndef]
    /\ rOut = NoRCall

RenderIdle ==
    /\ rdIn = NoRenderRequest
    /\ rdOut = <<>>

\* no builder is constructed, no watermark is added and no fluent call made
BuilderIdle ==
    /\ opts = NoOptions
    /\ built = NotBuilt
    /\ gens = <<>>
    /\ sets = 0

WatermarkIdle ==
    /\ wIn = WmOptions(0, DUndef, NUndef)
    /\ wOut = NotDrawn

FluentIdle == bld = <<>>

OthersIdle == WatermarkIdle /\ FluentIdle

Tail10 == <<3, 4, 5, 6, 7, 8, 9, 0, 1, 2>>

\* twelve digits: every pair of leading digits before 3456789012
Prefixes == {<<a, b>> \o Tail10 : a \in 0..9, b \in 0..9}

EanData ==
    {DStr(Digits(p)) : p \in Prefixes}
    \cup {DStr(Digits(p \o <<d>>)) : p \in Prefixes, d \in 0..9}

Letters(n) == [i \in 1..n |-> 97]

MiscData ==
    {DStr(<<>>), DUndef, DNull, DNum(<<48>>), DNum(<<53>>),
     DStr(Digits(<<1, 2, 3>>)), DStr(<<49, 50, 97>>), DStr(<<65, 66, 32, 45>>),
     DStr(<<97, 98>>), DStr(<<233>>), DStr(<<50>>),
     DStr(Digits(<<1, 2, 3, 4, 5, 6, 7>>)), DStr(Digits(<<1, 2, 3, 4, 5, 6, 7, 0>>)),
     DStr(Digits(<<1, 2, 3, 4, 5, 6, 7, 4>>)),
     DStr(Digits(<<1, 2, 3, 4, 5, 6, 7, 8>>)), DStr(Digits(<<7, 3, 5, 1, 3, 5, 3, 7>>)),
     DStr(Digits(<<9, 6, 3, 8, 5, 0, 7, 4>>)),
     DStr(Letters(12)), DStr(Letters(13)), DStr(Letters(14)),
     DStr(Digits(<<1, 2>> \o Tail10 \o <<8, 8>>)),
     DStr(Digits(<<1, 2>> \o Tail10) \o <<97>>),
     DStr(Letters(44)), DStr(Letters(81)), DStr(Letters(101))}

MiscTypes ==
    {NStr(t) : t \in {"ean13", "ean8", "upca", "upce", "code128", "code128c",
                      "code39", "code39extended", "code93", "qrcode", "aztec",
                      "invalid-type", ""}}
    \cup {NUndef, NNull}

VInputs ==
    {[data |-> d, type |-> NStr("ean13")] : d \in EanData}
    \cup {[data |-> d, type |-> t] : d \in MiscData, t \in MiscTypes}

NoCall == [op |-> "none", res |-> Invalid(NoMsg)]
NoCd == [done |-> FALSE, value |-> 0]

InitV ==
    /\ vIn \in VInputs
    /\ vOut = NoCall
    /\ cdOut = NoCd
    /\ ServiceIdle
    /\ RegistryIdle
    /\ RenderIdle
    /\ BuilderIdle
    /\ OthersIdle

\* the caller calls validate(data, type)
Validate ==
    /\ vOut.op = "none"
    /\ vOut' = [op |-> "validate", res |-> validate(vIn.data, vIn.type)]
    /\ UNCHANGED <<vIn, cdOut>>
    /\ UNCHANGED notVal

\* the caller calls calculateEANCheckDigit(data) with a string
CalculateEANCheckDigit ==
    /\ ~cdOut.done
    /\ vIn.data.tag = "string"
    /\ cdOut' = [done |-> TRUE, value |-> calculateEANCheckDigit(vIn.data.s)]
    /\ UNCHANGED <<vIn, vOut>>
    /\ UNCHANGED notVal

NextV == Validate \/ CalculateEANCheckDigit

SpecV == InitV /\ [][NextV]_vars

----------------------------------------------------------------------------
(* Calls of the service: one generate or batch call per behaviour, then    *)
(* the events of the document streams it started                           *)
(***************************************************************************)

Two == DStr(Digits(<<1, 2>>))

GenData ==
    {Two, DStr(<<>>), DUndef, DNum(<<53>>), DStr(<<233>>),
     DStr(Digits(<<1, 2, 3, 4, 5, 6, 7, 8, 9, 0, 1, 2, 3>>)),
     DStr(Digits(<<1, 2, 3, 4, 5, 6, 7, 8, 9, 0, 1, 2, 8>>))}

GenTypes ==
    {NUndef, NNull, NStr(""), NStr("invalid-type"),
     NStr("code128"), NStr("ean13"), NStr("qrcode")}

GenFormats ==
    {NUndef, NStr(""), NStr("gif")} \cup {NStr(f) : f \in Range(FORMATS)}

Items ==
    {Primitive("null"), Primitive("undefined"), Primitive("number")}
    \cup {Item(d, t, f) : d \in {Two, DStr(<<>>), DUndef},
                          t \in {NUndef, NStr("invalid-type")},
                          f \in {NUndef, NStr("pdf"), NStr("jpg")}}
    \cup {Item(Two, NStr(""), NStr("svg")), Item(Two, NStr("code39"), NStr("gif")),
          Item(Two, NNull, NStr("")), Item(DStr(<<233>>), NStr("code128"), NStr("html"))}

RECURSIVE SeqsUpTo(_, _)
\* the sequences over S of length at most n
SeqsUpTo(S, n) ==
    IF n = 0 THEN {<<>>}
    ELSE LET shorter == SeqsUpTo(S, n - 1)
         IN  shorter \cup {Append(q, x) : q \in shorter, x \in S}

Requests ==
    {Request("generate", d, t, f, FALSE, <<>>) :
        d \in GenData, t \in GenTypes, f \in GenFormats}
    \cup {Request("batch", DUndef, NUndef, NUndef, TRUE, items) :
            items \in SeqsUpTo(Items, MaxItems)}
    \cup {Request("batch", DUndef, NUndef, NUndef, FALSE, <<>>)}

ValidatorIdle ==
    /\ vIn = [data |-> DUndef, type |-> NUndef]
    /\ vOut = NoCall
    /\ cdOut = NoCd

Init ==
    /\ req \in Requests
    /\ pc = "start"
    /\ last = NoOutcome
    /\ results = <<>>
    /\ calls = <<>>
    /\ pdfs = <<>>
    /\ ValidatorIdle
    /\ RegistryIdle
    /\ RenderIdle
    /\ BuilderIdle
    /\ OthersIdle

\* the caller calls generate(data, type, format)
Generate ==
    /\ pc = "start"
    /\ req.op = "generate"
    /\ \E e \in Ext :
          LET g == generate(req.data, req.type, req.format, e, Len(pdfs) + 1)
          IN  /\ pc' = IF g.kind = "return" THEN "returned" ELSE "threw"
              /\ last' = [kind |-> g.kind, value |-> g.value, error |-> g.error]
              /\ calls' = calls \o g.calls
              /\ pdfs' = pdfs \o g.pdfs
    /\ UNCHANGED <<req, results>>
    /\ UNCHANGED notSvc

\* the caller calls batch(items)
Batch ==
    /\ pc = "start"
    /\ req.op = "batch"
    /\ \E ext \in [1..Len(req.items) -> Ext] :
          LET b == batch(req.isArray, req.items, ext)
          IN  /\ pc' = IF b.aborted THEN "threw" ELSE "returned"
              /\ last' = [kind |-> IF b.aborted THEN "throw" ELSE "return",
                          value |-> NoArtifact, error |-> b.error]
              /\ results' = IF b.aborted THEN <<>> ELSE b.results
              /\ calls' = calls \o b.calls
              /\ pdfs' = pdfs \o b.pdfs
    /\ UNCHANGED req
    /\ UNCHANGED notSvc

\* the 'data' listener putting the chunk in front of those collected
OnData_unshift(doc, c) == [doc EXCEPT !.chunks = <<c>> \o @]

\* the 'data' listener of document i, chunks being the array it pushes to
OnData(doc, c) == [doc EXCEPT !.chunks = Append(@, c)]

\* the stream of document i emits 'data': the listener pushes the chunk
PdfData(i) ==
    /\ pdfs[i].stream = "open"
    /\ Len(pdfs[i].emitted) < MaxChunks
    /\ \E c \in ChunkBytes :
          pdfs' = [pdfs EXCEPT ![i] = OnData([@ EXCEPT !.emitted = Append(@, c)], c)]
    /\ UNCHANGED <<req, pc, last, results, calls>>
    /\ UNCHANGED notSvc

\* the stream of document i emits 'end', which it does only after doc.end():
\* the listener resolves the promise with the concatenated chunks
PdfEnd(i) ==
    /\ pdfs[i].stream = "open"
    /\ pdfs[i].finalized
    /\ pdfs' = [pdfs EXCEPT
                  ![i].stream = "ended",
                  ![i].promise = IF @ = "pending" THEN "resolved" ELSE @,
                  ![i].value = IF pdfs[i].promise = "pending"
                               THEN pdfs[i].chunks ELSE @]
    /\ UNCHANGED <<req, pc, last, results, calls>>
    /\ UNCHANGED notSvc

\* the stream of document i emits 'error': reject is the listener
PdfError(i) ==
    /\ pdfs[i].stream = "open"
    /\ pdfs' = [pdfs EXCEPT
                  ![i].stream = "errored",
                  ![i].promise = IF @ = "pending" THEN "rejected" ELSE @,
                  ![i].reason = IF pdfs[i].promise = "pending" THEN Raw ELSE @]
    /\ UNCHANGED <<req, pc, last, results, calls>>
    /\ UNCHANGED notSvc

Next ==
    \/ Generate
    \/ Batch
    \/ \E i \in 1..Len(pdfs) : PdfData(i)
    \/ \E i \in 1..Len(pdfs) : PdfEnd(i)
    \/ \E i \in 1..Len(pdfs) : PdfError(i)

Spec == Init /\ [][Next]_vars

----------------------------------------------------------------------------
(* Calls of the registries and of the facade: one call per behaviour *)

\* names that are not registered: members of Object.prototype, names that
\* differ from a registered one in case or by a character, and the empty name
Unregistered ==
    ObjectPrototype
    \cup {"", "invalid-type", "CODE128", "Code128", "code128 ", "qr", "qr-code",
          "ean", "ean14", "undefined", "null", "length", "prototype", "name"}

RTypes ==
    {NStr(t) : t \in Range(TYPES) \cup Unregistered} \cup {NUndef, NNull}

RData == {Two, DStr(<<>>), DStr(Digits(<<1, 2, 3, 4, 5, 6, 7, 8, 9, 0, 1, 2, 3>>))}

InitR ==
    /\ rIn \in {[type |-> t, data |-> d] : t \in RTypes, d \in RData}
    /\ rOut = NoRCall
    /\ ValidatorIdle
    /\ ServiceIdle
    /\ RenderIdle
    /\ BuilderIdle
    /\ OthersIdle

\* the caller calls BarcodeTypes.isValid(type)
IsValid ==
    /\ rOut.op = "none"
    /\ rOut' = [NoRCall EXCEPT !.op = "isValid", !.facade = "BarcodeTypes",
                               !.bool = BarcodeTypes_isValid(rIn.type)]
    /\ UNCHANGED rIn
    /\ UNCHANGED notReg

\* the caller calls BarcodeTypes.getConfig(type)
GetConfig ==
    /\ rOut.op = "none"
    /\ rOut' = [NoRCall EXCEPT !.op = "getConfig", !.facade = "BarcodeTypes",
                               !.config = BarcodeTypes_getConfig(rIn.type)]
    /\ UNCHANGED rIn
    /\ UNCHANGED notReg

\* the caller calls BarcodeGenerator.getBarcodeTypes() of either facade
GetBarcodeTypes ==
    /\ rOut.op = "none"
    /\ rOut' \in {BarcodeGenerator_getBarcodeTypes, Part005_getBarcodeTypes}
    /\ UNCHANGED rIn
    /\ UNCHANGED notReg

\* the caller calls BarcodeGenerator.getRenderFormats() of either facade
GetRenderFormats ==
    /\ rOut.op = "none"
    /\ rOut' \in {BarcodeGenerator_getRenderFormats, Part005_getRenderFormats}
    /\ UNCHANGED rIn
    /\ UNCHANGED notReg

\* the caller calls BarcodeGenerator.validate(data, type) of either facade
FacadeValidate ==
    /\ rOut.op = "none"
    /\ rOut' \in {BarcodeGenerator_validate(rIn.data, rIn.type),
                  Part005_validate(rIn.data, rIn.type)}
    /\ UNCHANGED rIn
    /\ UNCHANGED notReg

\* the caller calls BarcodeGenerator.getWatermarkPositions() of either facade
GetWatermarkPositions ==
    /\ rOut.op = "none"
    /\ rOut' \in {BarcodeGenerator_getWatermarkPositions, Part005_getWatermarkPositions}
    /\ UNCHANGED rIn
    /\ UNCHANGED notReg

NextR ==
    \/ IsValid
    \/ GetConfig
    \/ GetBarcodeTypes
    \/ GetRenderFormats
    \/ FacadeValidate
    \/ GetWatermarkPositions

SpecR == InitR /\ [][NextR]_vars

----------------------------------------------------------------------------
(* Calls of the renderers' own drawing code with one (data, type, options):  *)
(* up to MaxRenders calls per behaviour, in any order                        *)
(***************************************************************************)

\* what Date.now() can return, and the suffixes Math.random() can give
Clock == {1000, 1001}
Random == {"k3j", "x9q"}

RdData == {<<49, 50>>, <<65>>, <<97, 98, 99>>, <<72, 105, 33, 126>>}
RdTypes == Range(MATRIX_2D) \cup {"code128", "ean13"}
RdOptions ==
    {Options(id, dv, h, w) : id \in {NUndef, NStr(""), NStr("bc1")},
                             dv \in BOOLEAN, h \in {100, 60}, w \in {2, 3, 0}}

InitD ==
    /\ rdIn \in {[data |-> d, type |-> t, options |-> o] :
                    d \in RdData, t \in RdTypes, o \in RdOptions}
    /\ rdOut = <<>>
    /\ ValidatorIdle
    /\ ServiceIdle
    /\ RegistryIdle
    /\ BuilderIdle
    /\ OthersIdle

\* the clock does not go back between two calls
Later(now) == IF rdOut = <<>> THEN TRUE ELSE rdOut[Len(rdOut)].at <= now

\* HTMLRenderer.render(data, type, options)
RenderHTML ==
    /\ Len(rdOut) < MaxRenders
    /\ \E now \in Clock, rnd \in Random :
          /\ Later(now)
          /\ rdOut' = Append(rdOut,
                Rendered("html", now,
                    HTMLRenderer_createHTMLStructure(rdIn.data, rdIn.type,
                        RenderOptions(rdIn.options), now, rnd)))
    /\ UNCHANGED rdIn
    /\ UNCHANGED notRnd

\* SVGRenderer.render(data, type, options) when the primary path throws
RenderSVG ==
    /\ Len(rdOut) < MaxRenders
    /\ \E now \in Clock :
          /\ Later(now)
          /\ rdOut' = Append(rdOut,
                Rendered("svg", now,
                    SVGRenderer_createManualSVG(rdIn.data, rdIn.type, rdIn.options)))
    /\ UNCHANGED rdIn
    /\ UNCHANGED notRnd

\* PDFRenderer.render(data, type, options): what it draws into the document
RenderPDF ==
    /\ Len(rdOut) < MaxRenders
    /\ \E now \in Clock :
          /\ Later(now)
          /\ rdOut' = Append(rdOut,
                Rendered("pdf", now,
                    PDFRenderer_addBarcodeToPDF(rdIn.data, rdIn.type,
                        RenderOptions(rdIn.options))))
    /\ UNCHANGED rdIn
    /\ UNCHANGED notRnd

NextD == RenderHTML \/ RenderSVG \/ RenderPDF

SpecD == InitD /\ [][NextD]_vars

----------------------------------------------------------------------------
(* A builder, the result of its build() and one generate() call of that      *)
(* result: setter calls and the continuations of the call interleave in any  *)
(* order                                                                     *)
(***************************************************************************)

\* new QrCodeBuilder(options): the defaults with the caller's options over them
QInit ==
    {DefaultQrOptions,
     QrOptions(300, LogoFile, DNull, DNull),
     QrOptions(300, LogoFile, VersionText, DraftText),
     QrOptions(300, DNull, WatermarkFile, DraftText),
     QrOptions(300, DNull, Seven, DNull),
     QrOptions(300, LogoFile, WatermarkFile, DraftText)}

InitQ ==
    /\ opts \in QInit
    /\ built = NotBuilt
    /\ gens = <<>>
    /\ sets = 0
    /\ ValidatorIdle
    /\ ServiceIdle
    /\ RegistryIdle
    /\ RenderIdle
    /\ OthersIdle

\* a builder exists
Constructed == opts # NoOptions

Outcome == {"ok", "fail"}

\* builder.size(400)
Builder_size ==
    /\ Constructed
    /\ sets < MaxSets
    /\ opts' = [opts EXCEPT !.size = 400]
    /\ sets' = sets + 1
    /\ UNCHANGED <<built, gens>>
    /\ UNCHANGED notQr

\* builder.logoPath('a.png')
Builder_logoPath ==
    /\ Constructed
    /\ sets < MaxSets
    /\ opts' = [opts EXCEPT !.logoPath = LogoFile]
    /\ sets' = sets + 1
    /\ UNCHANGED <<built, gens>>
    /\ UNCHANGED notQr

\* builder.watermark('DRAFT', 'top-left')
Builder_watermark ==
    /\ Constructed
    /\ sets < MaxSets
    /\ opts' = [opts EXCEPT !.watermark = DraftText, !.watermarkPosition = "top-left"]
    /\ sets' = sets + 1
    /\ UNCHANGED <<built, gens>>
    /\ UNCHANGED notQr

\* builder.label('DRAFT')
Builder_label ==
    /\ Constructed
    /\ sets < MaxSets
    /\ opts' = [opts EXCEPT !.label = DraftText]
    /\ sets' = sets + 1
    /\ UNCHANGED <<built, gens>>
    /\ UNCHANGED notQr

\* builder.format('svg'), builder.format('jpg')
Builder_format ==
    /\ Constructed
    /\ sets < MaxSets
    /\ \E format \in {"svg", "jpg"} : opts' = [opts EXCEPT !.format = format]
    /\ sets' = sets + 1
    /\ UNCHANGED <<built, gens>>
    /\ UNCHANGED notQr

\* builder.build(): the result holds this.options itself, so from now on
\* opts is also the options of the result; built.options keeps what they
\* were at the call
Build ==
    /\ Constructed
    /\ ~built.done
    /\ built' = [done |-> TRUE, options |-> opts]
    /\ UNCHANGED <<opts, gens, sets>>
    /\ UNCHANGED notQr

\* result.generate() is called and runs to its first await
GenStart ==
    /\ built.done
    /\ gens = <<>>
    /\ gens' = QrCodeResult_generate(gens, opts)
    /\ UNCHANGED <<opts, built, sets>>
    /\ UNCHANGED notQr

\* the promise of QRCode.toDataURL settles for call j
QRCodeDone(j) ==
    /\ gens[j].pc = "qr"
    /\ \E e \in Outcome : gens' = QrCodeResult_onDataURL(gens, j, e)
    /\ UNCHANGED <<opts, built, sets>>
    /\ UNCHANGED notQr

\* the promise of loadImage(qrCodeDataURL) settles for call j
QRImageLoaded(j) ==
    /\ gens[j].pc = "qrImage"
    /\ \E e \in Outcome, f \in Outcome :
          gens' = QrCodeResult_onQrImage(gens, j, opts, e, f)
    /\ UNCHANGED <<opts, built, sets>>
    /\ UNCHANGED notQr

\* the promise of loadImage(logoPath) settles for call j
LogoLoaded(j) ==
    /\ gens[j].pc = "logoImage"
    /\ \E e \in Outcome : gens' = QrCodeResult_addLogo(gens, j, opts, e)
    /\ UNCHANGED <<opts, built, sets>>
    /\ UNCHANGED notQr

\* generate resumes after await this.addLogo(ctx)
AfterLogo(j) ==
    /\ gens[j].pc = "afterLogo"
    /\ \E f \in Outcome : gens' = WatermarkStep(gens, j, opts, f)
    /\ UNCHANGED <<opts, built, sets>>
    /\ UNCHANGED notQr

\* the promise of loadImage(watermark) settles for call j
WatermarkLoaded(j) ==
    /\ gens[j].pc = "watermarkImage"
    /\ \E e \in Outcome : gens' = QrCodeResult_addWatermark(gens, j, opts, e)
    /\ UNCHANGED <<opts, built, sets>>
    /\ UNCHANGED notQr

\* generate resumes after await this.addWatermark(ctx)
AfterWatermark(j) ==
    /\ gens[j].pc = "afterWatermark"
    /\ \E f \in Outcome : gens' = LabelStep(gens, j, opts, f)
    /\ UNCHANGED <<opts, built, sets>>
    /\ UNCHANGED notQr

\* result.getDataUri() resumes after its await of call j of generate
GetDataUri(j) ==
    /\ gens[j].pc = "done"
    /\ gens[j].settled = "resolved"
    /\ gens[j].uri = NoUri
    /\ gens' = QrCodeResult_getDataUri(gens, j, opts)
    /\ UNCHANGED <<opts, built, sets>>
    /\ UNCHANGED notQr

NextQ ==
    \/ Builder_size
    \/ Builder_format
    \/ \E j \in 1..Len(gens) : GetDataUri(j)
    \/ Builder_logoPath
    \/ Builder_watermark
    \/ Builder_label
    \/ Build
    \/ GenStart
    \/ \E j \in 1..Len(gens) : QRCodeDone(j)
    \/ \E j \in 1..Len(gens) : QRImageLoaded(j)
    \/ \E j \in 1..Len(gens) : LogoLoaded(j)
    \/ \E j \in 1..Len(gens) : AfterLogo(j)
    \/ \E j \in 1..Len(gens) : WatermarkLoaded(j)
    \/ \E j \in 1..Len(gens) : AfterWatermark(j)

SpecQ == InitQ /\ [][NextQ]_vars

----------------------------------------------------------------------------
(* Generation calls in flight at the same time: up to MaxGens generate()    *)
(* calls of one result, or the PDF renders of one generate or batch call of *)
(* the service; their continuations interleave in any order                 *)
(***************************************************************************)

PdfItems == {Item(Two, NUndef, NStr("pdf"))}

PdfRequests ==
    {Request("generate", Two, t, NStr("pdf"), FALSE, <<>>) : t \in {NUndef, NStr("qrcode")}}
    \cup {Request("batch", DUndef, NUndef, NUndef, TRUE, items) :
            items \in SeqsUpTo(PdfItems, MaxItems)}

InitC ==
    \/ InitQ
    \/ /\ req \in PdfRequests
       /\ pc = "start"
       /\ last = NoOutcome
       /\ results = <<>>
       /\ calls = <<>>
       /\ pdfs = <<>>
       /\ ValidatorIdle
       /\ RegistryIdle
       /\ RenderIdle
       /\ BuilderIdle
       /\ OthersIdle

\* result.generate() is called again, while or after earlier calls run
GenStartAgain ==
    /\ built.done
    /\ gens # <<>>
    /\ Len(gens) < MaxGens
    /\ gens' = QrCodeResult_generate(gens, opts)
    /\ UNCHANGED <<opts, built, sets>>
    /\ UNCHANGED notQr

NextC ==
    \/ Build
    \/ GenStart
    \/ GenStartAgain
    \/ \E j \in 1..Len(gens) : QRCodeDone(j)
    \/ \E j \in 1..Len(gens) : QRImageLoaded(j)
    \/ \E j \in 1..Len(gens) : LogoLoaded(j)
    \/ \E j \in 1..Len(gens) : AfterLogo(j)
    \/ \E j \in 1..Len(gens) : WatermarkLoaded(j)
    \/ \E j \in 1..Len(gens) : AfterWatermark(j)
    \/ Generate
    \/ Batch
    \/ \E i \in 1..Len(pdfs) : PdfData(i)
    \/ \E i \in 1..Len(pdfs) : PdfEnd(i)
    \/ \E i \in 1..Len(pdfs) : PdfError(i)

SpecC == InitC /\ [][NextC]_vars

----------------------------------------------------------------------------
(* The watermark of a composition: one addWatermark call on a result whose   *)
(* options hold a size, a watermark and a watermarkPosition                  *)
(***************************************************************************)

\* the nine names, names that are no key of the table (among them members of
\* Object.prototype), and a position that is missing or null
WPositions ==
    {NStr(n) : n \in DOMAIN positions(0, 0)}
    \cup {NStr(n) : n \in {"", "middle", "Center", "TOP-LEFT", "top_left",
                            "constructor", "toString", "__proto__"}}
    \cup {NUndef, NNull}

WSizes == {200, 300, 301, 400}

InitW ==
    /\ wIn \in {WmOptions(size, w, p) :
                    size \in WSizes, w \in {DraftText, WatermarkFile}, p \in WPositions}
    /\ wOut = NotDrawn
    /\ ValidatorIdle
    /\ ServiceIdle
    /\ RegistryIdle
    /\ RenderIdle
    /\ BuilderIdle
    /\ FluentIdle

\* generate calls addWatermark(ctx); e is what loadImage and the context do
AddWatermark ==
    /\ wOut = NotDrawn
    /\ \E e \in {"ok", "fail"} : wOut' = QrCodeResult_addWatermark_at(wIn, e)
    /\ UNCHANGED wIn
    /\ UNCHANGED notWm

NextW == AddWatermark

SpecW == InitW /\ [][NextW]_vars

----------------------------------------------------------------------------
(* The fluent interface of the builder: QrCodeBuilder.create(options) and   *)
(* then up to MaxCalls setter calls, in any order                           *)
(***************************************************************************)

\* what the caller passes to create
CreateOptions ==
    {<<>>,
     [size |-> "500"],
     [watermarkPosition |-> "'bottom-right'", labelFontSize |-> "12",
      label |-> "'A'"]}

InitB ==
    /\ bld \in {<<QrCodeBuilder_constructor(o)>> : o \in CreateOptions}
    /\ ValidatorIdle
    /\ ServiceIdle
    /\ RegistryIdle
    /\ RenderIdle
    /\ BuilderIdle
    /\ WatermarkIdle

NextB ==
    \/ QrCodeBuilder_data
    \/ QrCodeBuilder_size
    \/ QrCodeBuilder_margin
    \/ QrCodeBuilder_errorCorrectionLevel
    \/ QrCodeBuilder_foregroundColor
    \/ QrCodeBuilder_backgroundColor
    \/ QrCodeBuilder_logoPath
    \/ QrCodeBuilder_logoSize
    \/ QrCodeBuilder_label
    \/ QrCodeBuilder_labelFont
    \/ QrCodeBuilder_watermark
    \/ QrCodeBuilder_format

SpecB == InitB /\ [][NextB]_vars

----------------------------------------------------------------------------
(* Properties of the Validator, checked under SpecV *)

Ean13 == NStr("ean13")
Lit12 == DStr(Digits(<<1, 2, 3, 4, 5, 6, 7, 8, 9, 0, 1, 2>>))
Lit123 == DStr(Digits(<<1, 2, 3, 4, 5, 6, 7, 8, 9, 0, 1, 2, 3>>))
Lit120 == DStr(Digits(<<1, 2, 3, 4, 5, 6, 7, 8, 9, 0, 1, 2, 0>>))
Lit128 == DStr(Digits(<<1, 2, 3, 4, 5, 6, 7, 8, 9, 0, 1, 2, 8>>))

Validated(data, type) ==
    vOut.op = "validate" /\ vIn.data = data /\ vIn.type = type

CheckDigitError(res) ==
    ~res.valid /\ res.error.text = "Invalid EAN-13 check digit"

C8_AsStated ==
    (cdOut.done /\ vIn.data = Lit12) => cdOut.value = 2

\* C8 amended: the EAN check-digit function applied to "123456789012"
\* returns 8.
C8_CheckDigitIs8 ==
    (cdOut.done /\ vIn.data = Lit12) => cdOut.value = 8

C8_Witness == cdOut.done /\ vIn.data = Lit12 /\ vIn.type = Ean13

\* digit sums over the first twelve characters, by 0-based index parity
EvenIndexSum(d) ==
    (d[1] - 48) + (d[3] - 48) + (d[5] - 48) + (d[7] - 48) + (d[9] - 48) + (d[11] - 48)

OddIndexSum(d) ==
    (d[2] - 48) + (d[4] - 48) + (d[6] - 48) + (d[8] - 48) + (d[10] - 48) + (d[12] - 48)

Mod10Check(sum) == (10 - (sum % 10)) % 10

ThirteenDigits(data) ==
    data.tag = "string" /\ Len(data.s) = 13 /\ \A i \in 1..13 : data.s[i] \in 48..57

TwelveDigits(data) ==
    data.tag = "string" /\ Len(data.s) = 12 /\ \A i \in 1..12 : data.s[i] \in 48..57

C9_ClaimedCheck(d) == Mod10Check(OddIndexSum(d) + 3 * EvenIndexSum(d))

C9_CodedCheck(d) == Mod10Check(EvenIndexSum(d) + 3 * OddIndexSum(d))

\* the rule of C9, with the weights as the claim states them or exchanged
C9_Rule(asClaimed) ==
    (vOut.op = "validate" /\ vIn.type = Ean13) =>
        /\ ThirteenDigits(vIn.data) =>
              LET check == IF asClaimed THEN C9_ClaimedCheck(vIn.data.s)
                           ELSE C9_CodedCheck(vIn.data.s)
              IN  /\ CheckDigitError(vOut.res) <=> (vIn.data.s[13] - 48 # check)
                  /\ ~CheckDigitError(vOut.res) => vOut.res.valid
        /\ TwelveDigits(vIn.data) => vOut.res.valid

\* C9 as stated: for ean13 data of 13 digits validate fails with a
\* check-digit error iff the 13th digit differs from the modulo-10 check digit
\* of the first 12 computed with weight 1 on the odd and weight 3 on the even
\* 0-based positions; 12 digits are accepted without a check-digit test.
C9_AsStated == C9_Rule(TRUE)

\* C9 amended: the same, with weight 1 on the even and weight 3 on the odd
\* 0-based positions (the first digit has weight 1).
C9_CheckDigitRule == C9_Rule(FALSE)

C9_Witness ==
    vOut.op = "validate" /\ vIn.type = Ean13 /\ ThirteenDigits(vIn.data)
    /\ vOut.res.valid /\ vIn.data # Lit128

\* C10: validate reports the first failing check in the order empty or
\* non-string data, unregistered type, length bounds, charset, checksum; data
\* whose length is out of bounds gets the length error even when its
\* characters are not in the type's charset.
C10_CheckOrder ==
    vOut.op = "validate" =>
        LET d == vIn.data
            t == vIn.type
            e == vOut.res.error
            str == d.tag = "string" /\ d.s # <<>>
            reg == t.tag = "string" /\ \E i \in 1..Len(TYPES) : TYPES[i] = t.s
            cfg == BarcodeTypes_getConfig(t)
            short == Len(d.s) < cfg.minLength
            long == Len(d.s) > cfg.maxLength
            early == {"Data must be a non-empty string",
                      "Invalid barcode type: ${type}",
                      "Data too short. Minimum length: ${config.minLength}",
                      "Data too long. Maximum length: ${config.maxLength}"}
        IN  /\ ~str => ~vOut.res.valid /\ e.text = "Data must be a non-empty string"
            /\ (str /\ ~reg) =>
                  ~vOut.res.valid /\ e.text = "Invalid barcode type: ${type}" /\ e.name = t
            /\ (str /\ reg /\ short) =>
                  /\ ~vOut.res.valid
                  /\ e.text = "Data too short. Minimum length: ${config.minLength}"
                  /\ e.num = cfg.minLength
            /\ (str /\ reg /\ ~short /\ long) =>
                  /\ ~vOut.res.valid
                  /\ e.text = "Data too long. Maximum length: ${config.maxLength}"
                  /\ e.num = cfg.maxLength
            /\ (str /\ reg /\ ~short /\ ~long) =>
                  /\ e.text \notin early
                  /\ (t = Ean13 /\ \E i \in 1..Len(d.s) : d.s[i] \notin 48..57) =>
                        ~vOut.res.valid /\ e.text = "EAN-13 must be 12 or 13 digits"

C10_Witness ==
    /\ Validated(DStr(<<49, 50, 97>>), Ean13)
    /\ vOut.res.error.text = "Data too short. Minimum length: ${config.minLength}"
    /\ vOut.res.error.num = 12

\* the digits of a string of digits
DigitsOf(data) == [i \in 1..Len(data) |-> data[i] - 48]

\* the check digit GS1 gives the seven digits d of an EAN-8 number
GS1Check8(d) ==
    (10 - ((3 * d[1] + d[2] + 3 * d[3] + d[4] + 3 * d[5] + d[6] + 3 * d[7]) % 10)) % 10

EightDigits(data) ==
    data.tag = "string" /\ Len(data.s) = 8 /\ \A i \in 1..8 : IsDigit(data.s[i])

\* C28 as stated: whenever validate returns valid:true with charset
\* 'Numeric', the accepted data consists of the decimal digits 0-9 only.
C28_AsStated ==
    (vOut.op = "validate" /\ vOut.res.valid /\ vOut.res.charset = "Numeric")
        => \A i \in 1..Len(vIn.data.s) : IsDigit(vIn.data.s[i])

\* C29 as stated: for ean8 data of exactly 8 digits, validate accepts exactly
\* the values whose 8th digit is the GS1 check digit of the first 7 digits.
C29_AsStated ==
    (vOut.op = "validate" /\ vIn.type = NStr("ean8") /\ EightDigits(vIn.data))
        => (vOut.res.valid
              <=> DigitsOf(vIn.data.s)[8] = GS1Check8(DigitsOf(vIn.data.s)))

----------------------------------------------------------------------------
(* Properties of the service, checked under Spec *)

NonEmptyString(d) == d.tag = "string" /\ Len(d.s) > 0

Registered(n, names) == n.tag = "string" /\ \E i \in 1..Len(names) : names[i] = n.s

HasRender == \E k \in 1..Len(calls) : calls[k].call = "render"

\* the type and format a generate request runs with
ReqType == IF req.type = NUndef THEN NStr("code128") ELSE req.type
ReqFormat == IF req.format = NUndef THEN NStr("png") ELSE req.format

GenerateDone == req.op = "generate" /\ pc # "start"

BatchDone == req.op = "batch" /\ req.isArray /\ pc # "start"

\* C1: a renderer's render is invoked only right after Validator.validate
\* returned valid:true for the same data and type; a generate call whose data
\* is not a non-empty string, whose type or format is not registered, or
\* whose data the Validator rejects invokes no renderer.
C1_RenderOnlyAfterValid ==
    /\ \A k \in 1..Len(calls) :
          calls[k].call = "render" =>
              /\ k > 1
              /\ calls[k - 1].call = "validate"
              /\ calls[k - 1].valid
              /\ calls[k - 1].data = calls[k].data
              /\ calls[k - 1].type = calls[k].type
              /\ NonEmptyString(calls[k].data)
              /\ Registered(calls[k].type, TYPES)
    /\ (GenerateDone /\ (\/ ~NonEmptyString(req.data)
                         \/ ~Registered(ReqType, TYPES)
                         \/ ~Registered(ReqFormat, FORMATS)
                         \/ ~validate(req.data, ReqType).valid))
          => ~HasRender

C1_Witness == GenerateDone /\ HasRender /\ pc = "returned"

\* C2 as stated: batch never aborts on a failing item; whatever an entry is,
\* also null, undefined or a non-object, its error becomes a result with
\* success:false and an error message, and every other item is reported.
C2_AsStated ==
    BatchDone =>
        /\ pc = "returned"
        /\ Len(results) = Len(req.items)
        /\ \A i \in 1..Len(results) :
              req.items[i].tag # "object" =>
                  ~results[i].success /\ results[i].error # NoMsg

\* C3 as stated: batch returns one result per item, in order, and the result
\* at position i carries index i and the item's data, type and format, type
\* and format being 'code128' and 'png' when the item omits them.
C3_AsStated ==
    BatchDone =>
        /\ pc = "returned"
        /\ Len(results) = Len(req.items)
        /\ \A i \in 1..Len(results) :
              /\ results[i].index = i - 1
              /\ results[i].data = req.items[i].data
              /\ results[i].type = IF req.items[i].type = NUndef
                                   THEN NStr("code128") ELSE req.items[i].type
              /\ results[i].format = IF req.items[i].format = NUndef
                                     THEN NStr("png") ELSE req.items[i].format

\* C4 as stated: a batch result has success:true only if generation of the
\* item succeeded; an item whose rendering fails, also a pdf item whose
\* promise is rejected after batch returned, is reported with success:false.
C4_AsStated ==
    \A i \in 1..Len(results) :
        (results[i].result.ref # 0
         /\ pdfs[results[i].result.ref].promise = "rejected")
            => ~results[i].success

\* C5: generate fails with the error of the first failing check in the order
\* data, type, format, Validator: 'Data must be a non-empty string' whenever
\* the data is empty or not a string, 'Invalid barcode type' listing all
\* registered types for an unregistered type, 'Invalid format' listing all
\* registered formats for an unregistered format.
C5_CheckOrder ==
    GenerateDone =>
        LET str == NonEmptyString(req.data)
            typeOk == Registered(ReqType, TYPES)
            formatOk == Registered(ReqFormat, FORMATS)
        IN  /\ ~str =>
                  /\ last.kind = "throw"
                  /\ last.error = Text("Data must be a non-empty string")
            /\ (str /\ ~typeOk) =>
                  /\ last.kind = "throw"
                  /\ last.error.text
                        = "Invalid barcode type: ${type}. Supported types: ${list}"
                  /\ last.error.name = ReqType
                  /\ last.error.list = TYPES
            /\ (str /\ typeOk /\ ~formatOk) =>
                  /\ last.kind = "throw"
                  /\ last.error.text
                        = "Invalid format: ${format}. Supported formats: ${list}"
                  /\ last.error.name = ReqFormat
                  /\ last.error.list = FORMATS
            /\ (str /\ typeOk /\ formatOk /\ ~validate(req.data, ReqType).valid) =>
                  /\ last.kind = "throw"
                  /\ last.error.text = "Invalid data for ${type}: ${validation.error}"
                  /\ last.error.cause = validate(req.data, ReqType).error.text

C5_Witness ==
    /\ GenerateDone
    /\ req.data = DStr(<<>>)
    /\ req.type = NStr("invalid-type")
    /\ req.format = NStr("gif")
    /\ last.error.text = "Data must be a non-empty string"

\* C6 as stated: for every format the Format Registry reports as valid,
\* generate with a registered type and data the Validator accepts dispatches
\* to a renderer; it never fails because a registered format has no renderer.
C6_AsStated ==
    (/\ GenerateDone
     /\ Registered(ReqFormat, FORMATS)
     /\ Registered(ReqType, TYPES)
     /\ validate(req.data, ReqType).valid)
        => /\ HasRender
           /\ last.error.text # "No renderer available for format: ${format}"

\* whether the libraries failed during a render call of the backend
RenderFailed(c) ==
    /\ c.call = "render"
    /\ \/ c.backend \in {"png", "svg"} /\ c.ext = "fail"
       \/ c.backend = "pdf" /\ c.ext \in {"fail", "ctor"}

RenderingFailed(backend) ==
    CASE backend = "png" -> "PNG rendering failed: ${error.message}"
      [] backend = "svg" -> "SVG rendering failed: ${error.message}"
      [] backend = "html" -> "HTML rendering failed: ${error.message}"
      [] backend = "pdf" -> "PDF rendering failed: ${error.message}"

\* C14: an internal failure of a renderer's render reaches the caller as an
\* error whose message is '<BACKEND> rendering failed: ' followed by the
\* underlying message, whether render throws it or the promise it returned
\* is rejected with it
C14_AsStated ==
    /\ GenerateDone =>
          \A k \in 1..Len(calls) :
              RenderFailed(calls[k]) =>
                  \/ /\ last.kind = "throw"
                     /\ last.error.text = RenderingFailed(calls[k].backend)
                  \/ /\ last.kind = "return"
                     /\ last.value.ref # 0
                     /\ pdfs[last.value.ref].promise = "rejected"
                     /\ pdfs[last.value.ref].reason.text = RenderingFailed("pdf")
    /\ \A i \in 1..Len(pdfs) :
          pdfs[i].promise = "rejected" =>
              pdfs[i].reason.text = RenderingFailed("pdf")

\* the clauses of C15 that do not say who settles the promise: it is
\* resolved only after 'end', with the chunks emitted in emission order, of
\* a document that was drawn and finalized; 'error' leaves it rejected
ResolvedOnEnd(doc) ==
    /\ doc.promise = "resolved" =>
          /\ doc.stream = "ended"
          /\ doc.value = doc.emitted
          /\ doc.drawn
          /\ doc.finalized
    /\ doc.stream = "ended" => doc.promise = "resolved"
    /\ doc.stream = "errored" => doc.promise = "rejected"

\* C15 as stated: the promise is settled only by the document stream
\* ('end' resolves it, 'error' rejects it)
C15_AsStated ==
    \A i \in 1..Len(pdfs) :
        /\ ResolvedOnEnd(pdfs[i])
        /\ pdfs[i].promise # "pending" => pdfs[i].stream \in {"ended", "errored"}

\* C15: the promise is resolved only by 'end' of a drawn and finalized
\* document, with the chunks emitted in emission order; it is rejected by
\* 'error', or with no stream event by a throw while the barcode is drawn
C15_ResolvedOnlyOnEnd ==
    \A i \in 1..Len(pdfs) :
        /\ ResolvedOnEnd(pdfs[i])
        /\ pdfs[i].promise = "rejected" =>
              pdfs[i].stream = "errored" \/ ~pdfs[i].drawn
        /\ pdfs[i].promise = "pending" => pdfs[i].stream = "open"

C15_Witness ==
    \E i \in 1..Len(pdfs) :
        /\ pdfs[i].promise = "resolved"
        /\ Len(pdfs[i].value) = 2
        /\ pdfs[i].value[1] # pdfs[i].value[2]

\* whether a value is what a renderer returned
IsArtifact(v) == "backend" \in DOMAIN v /\ v # NoArtifact

----------------------------------------------------------------------------
(* Properties of the registries and of the facade, checked under SpecR *)

IsRegistered(type) ==
    type.tag = "string" /\ \E i \in 1..Len(TYPES) : TYPES[i] = type.s

\* C11: for a registered identifier isValid is true and the configuration
\* has minLength <= maxLength; for an identifier that is not registered
\* isValid is false and the configuration is exactly the fallback
\* {minLength: 1, maxLength: 100, charset: "Unknown"}
C11_AsStated ==
    /\ rOut.op = "isValid" => (rOut.bool <=> IsRegistered(rIn.type))
    /\ rOut.op = "getConfig" =>
          IF IsRegistered(rIn.type)
          THEN rOut.config.minLength <= rOut.config.maxLength
          ELSE rOut.config = [minLength |-> 1, maxLength |-> 100,
                              charset |-> "Unknown"]

\* C20: the facade's getBarcodeTypes() and getRenderFormats() return exactly
\* the sequences the registries list, and its validate(data, type) returns
\* the Validator's result unchanged
C20_AsStated ==
    /\ rOut.op = "getBarcodeTypes" =>
          ~rOut.threw /\ rOut.list = BarcodeTypes_getAll
    /\ rOut.op = "getRenderFormats" =>
          ~rOut.threw /\ rOut.list = RenderFormats_getAll
    /\ rOut.op = "validate" =>
          ~rOut.threw /\ rOut.res = validate(rIn.data, rIn.type)

\* the keys of the anchor table of getWatermarkPosition
AnchorKeys == DOMAIN positions(8 * 300, 0)

\* C21: getWatermarkPositions() returns exactly 9 distinct entries, among
\* them "center", "top-left" and "bottom-right", and each returned name is
\* a key of the anchor table of getWatermarkPosition, so that none of them
\* is resolved through the fallback.
C21_NinePositions ==
    rOut.op = "getWatermarkPositions" =>
        /\ ~rOut.threw
        /\ Len(rOut.list) = 9
        /\ Cardinality(Range(rOut.list)) = 9
        /\ {"center", "top-left", "bottom-right"} \subseteq Range(rOut.list)
        /\ Range(rOut.list) \subseteq AnchorKeys
        /\ \A i \in 1..Len(rOut.list) :
              QrCodeResult_getWatermarkPosition(
                  WmOptions(300, DraftText, NStr(rOut.list[i])), 0).via = ""

C21_Witness ==
    /\ rOut.op = "getWatermarkPositions"
    /\ rOut.facade = "index.js"
    /\ rOut.list[4] = "left-center"

----------------------------------------------------------------------------
(* Properties of anchor resolution, checked under SpecW *)

\* the column and the row a position name stands for
Column(name) ==
    CASE name \in {"top-left", "left-center", "bottom-left"} -> "left"
      [] name \in {"top-center", "center", "bottom-center"} -> "center"
      [] name \in {"top-right", "right-center", "bottom-right"} -> "right"

Row(name) ==
    CASE name \in {"top-left", "top-center", "top-right"} -> "top"
      [] name \in {"left-center", "center", "right-center"} -> "center"
      [] name \in {"bottom-left", "bottom-center", "bottom-right"} -> "bottom"

\* the coordinate of an edge or of the centre, in eighths of a pixel, for a
\* surface of side size and a watermark of side w (both in pixels times 8)
Along(edge, size, w) ==
    CASE edge \in {"left", "top"} -> 80
      [] edge \in {"right", "bottom"} -> size - w - 80
      [] edge = "center" -> (size - w) \div 2

NineNames ==
    {"top-left", "top-center", "top-right", "left-center", "center",
     "right-center", "bottom-left", "bottom-center", "bottom-right"}

\* C26 as stated: each of the nine positions resolves to its own (x, y),
\* corners and edges inset by 10 and centred coordinates (size - w) / 2; any
\* other or missing watermarkPosition resolves to the center formula; a text
\* watermark is resolved with w = 0 and an image with w = size / 4.
C26_AsStated ==
    wOut.kind \in {"text", "image"} =>
        LET size == 8 * wIn.size
            w == IF wOut.kind = "image" THEN 2 * wIn.size ELSE 0
            p == wIn.watermarkPosition
            name == IF p.tag = "string" /\ p.s \in NineNames THEN p.s ELSE "center"
        IN  /\ wOut.kind = (IF IsImagePath(wIn.watermark.s) THEN "image" ELSE "text")
            /\ wOut.size = w
            /\ wOut.at.x = Along(Column(name), size, w)
            /\ wOut.at.y = Along(Row(name), size, w)

----------------------------------------------------------------------------
(* Properties of the fluent interface, checked under SpecB *)

\* the fields a setter writes, in the order of its parameters, and the
\* default of each parameter ("" when it has none)
Writes(method) ==
    CASE method = "labelFont" -> <<"labelFont", "labelFontSize">>
      [] method = "watermark" -> <<"watermark", "watermarkPosition">>
      [] OTHER -> <<method>>

ParameterDefault(method, k) ==
    CASE method = "labelFont" /\ k = 2 -> "16"
      [] method = "watermark" /\ k = 2 -> "'center'"
      [] OTHER -> Absent

\* the value call c leaves in field f, or Absent if it is not among its fields
Written(c, f) ==
    LET fields == Writes(c.method)
    IN  IF \E k \in 1..Len(fields) : fields[k] = f
        THEN LET k == CHOOSE k \in 1..Len(fields) : fields[k] = f
             IN  IF c.args[k] = Absent THEN ParameterDefault(c.method, k)
                 ELSE c.args[k]
        ELSE Absent

RECURSIVE LastWritten(_, _, _)
\* the value of the last of the first n calls that wrote f, else initial
LastWritten(log, n, f) ==
    IF n = 0 THEN Absent
    ELSE IF Written(log[n], f) # Absent THEN Written(log[n], f)
    ELSE LastWritten(log, n - 1, f)

\* C27: every fluent setter returns the builder it was called on and changes
\* only the fields of its parameters (watermark: watermark and
\* watermarkPosition, labelFont: labelFont and labelFontSize, an omitted
\* second parameter taking its default 'center' / 16); after any sequence
\* of setter calls each field holds the value of the last setter that wrote
\* it, or its constructor value if none did.
C27_FluentSetters ==
    \A i \in 1..Len(bld) :
        /\ \A k \in 1..Len(bld[i].log) : bld[i].log[k].ret = i
        /\ \A f \in DOMAIN defaults :
              LET wrote == LastWritten(bld[i].log, Len(bld[i].log), f)
              IN  bld[i].options[f] = IF wrote = Absent THEN bld[i].ctor[f] ELSE wrote

C27_Witness ==
    /\ Len(bld) = 1
    /\ Len(bld[1].log) = 2
    /\ bld[1].log[1].method = "labelFont"
    /\ bld[1].log[1].args[2] = Absent
    /\ bld[1].log[2].method = "watermark"
    /\ bld[1].log[2].args[2] = Absent
    /\ bld[1].ctor.watermarkPosition = "'bottom-right'"
    /\ bld[1].options.watermarkPosition = "'center'"
    /\ bld[1].options.labelFontSize = "16"
    /\ bld[1].options.label = "'A'"

----------------------------------------------------------------------------
(* Properties of the renderers' drawing code, checked under SpecD *)

SameBackend(i, j) == i < j /\ rdOut[i].backend = rdOut[j].backend

\* the markup without the container id, which occurs in the opening tag and
\* in the selectors of the style element
WithoutId(markup) == [markup EXCEPT !.id = GivenId(NStr("")), !.cssId = GivenId(NStr(""))]

HtmlFilled(markup, row, col) == markup.body.cells[row * 20 + col + 1]
PdfFilled(drawing, row, col) == drawing.body.cells[row * 20 + col + 1]

\* C13: for a QR code, cell (row, col) of the 20 x 20 grid is filled in the
\* HTML markup exactly when it is filled in the PDF drawing
C13_AsStated ==
    \A i, j \in 1..Len(rdOut) :
        rdIn.type = "qrcode" /\ rdOut[i].backend = "html" /\ rdOut[j].backend = "pdf"
        => \A row \in 0..19, col \in 0..19 :
              HtmlFilled(rdOut[i].out, row, col) <=> PdfFilled(rdOut[j].out, row, col)

\* the options the renderer works with: the caller's over the defaults
Configured == RenderOptions(rdIn.options)

Is2D(type) == type \in Range(MATRIX_2D)

\* C23: when the primary path of the SVG renderer fails, render returns the
\* manual construction: an <svg> root of width 300 and of height (height + 30)
\* when displayValue is set and height otherwise, whose children are, in this
\* order, a background rectangle of the size of the root, the body, and a
\* centered text with the data, present exactly when displayValue is set;
\* the bars of the body are as tall as the configured height in both cases.
C23_ManualSvgShape ==
    \A i \in 1..Len(rdOut) :
        rdOut[i].backend = "svg" =>
            LET svg == rdOut[i].out
                shown == Configured.displayValue
            IN  /\ svg.width = 300
                /\ svg.height = Configured.height + (IF shown THEN 30 ELSE 0)
                /\ svg.background = [width |-> svg.width, height |-> svg.height]
                /\ svg.body.kind \in {"square", "bars"}
                /\ svg.children = IF shown THEN <<"rect", svg.body.kind, "text">>
                                  ELSE <<"rect", svg.body.kind>>
                /\ svg.text = IF shown THEN rdIn.data ELSE <<>>
                /\ svg.textX * 2 = svg.width
                /\ svg.body.kind = "bars" => svg.body.barHeight = Configured.height

C23_Witness ==
    \E i, j \in 1..Len(rdOut) :
        /\ rdOut[i].backend = "svg"
        /\ rdOut[j].backend = "svg"
        /\ i # j
        /\ Configured.displayValue
        /\ Configured.height = 60
        /\ rdOut[i].out.body.kind = "bars"
        /\ Len(rdOut[i].out.body.bars) > 2
        /\ rdOut[i].out.height = 90

\* the kind of body each backend has for a 2D symbol, and for bars
Kind2D(backend) ==
    CASE backend = "svg" -> "square"
      [] backend = "html" -> "qr-code"
      [] backend = "pdf" -> "grid"

\* C24 as stated: for every type of the Matrix2D category the manual SVG
\* has the single centered square, the HTML markup the cell grid and the PDF
\* drawing the cell grid; the bar sequence is emitted only for types that
\* are not 2D types.
C24_AsStated ==
    \A i \in 1..Len(rdOut) :
        /\ Is2D(rdIn.type) => rdOut[i].out.body.kind = Kind2D(rdOut[i].backend)
        /\ rdOut[i].out.body.kind \in {"bars", "linear-barcode"} => ~Is2D(rdIn.type)

RECURSIVE BarsOf(_)
\* the sum over the characters of ((code point mod 5) + 1)
BarsOf(data) ==
    IF data = <<>> THEN 0 ELSE ((Head(data) % 5) + 1) + BarsOf(Tail(data))

\* where the first bar starts: startX in the manual SVG, the left margin in
\* the PDF drawing, the start of the flex container in the HTML markup
StartX(backend) ==
    CASE backend = "svg" -> 20
      [] backend = "pdf" -> Configured.marginLeft
      [] backend = "html" -> 0

\* C25: for every linear type and every data string the manual SVG, the
\* HTML markup and the PDF drawing have the same number of bars, the sum over
\* the characters of ((code point mod 5) + 1), between 1 and 5 per
\* character; in the manual SVG (bars 2 wide) and in the PDF drawing (bars
\* options.width || 2 wide) the k-th bar, counting from 0, starts at
\* startX + k * 2 * barWidth.
C25_BarSequence ==
    \A i \in 1..Len(rdOut) :
        ~Is2D(rdIn.type) =>
            LET body == rdOut[i].out.body
                n == Len(body.bars)
            IN  /\ n = BarsOf(rdIn.data)
                /\ n >= Len(rdIn.data)
                /\ n <= 5 * Len(rdIn.data)
                /\ \A j \in 1..Len(rdOut) : Len(rdOut[j].out.body.bars) = n
                /\ body.barWidth = IF rdOut[i].backend = "svg" THEN 2
                                   ELSE IF rdIn.options.width = 0 THEN 2
                                   ELSE rdIn.options.width
                /\ rdOut[i].backend \in {"svg", "pdf"} =>
                      \A k \in 0..(n - 1) :
                          body.bars[k + 1]
                              = StartX(rdOut[i].backend) + k * 2 * body.barWidth

C25_Witness ==
    /\ Len(rdOut) = 2
    /\ rdOut[1].backend = "pdf"
    /\ rdOut[2].backend = "svg"
    /\ rdIn.type = "ean13"
    /\ rdIn.options.width = 3
    /\ Len(rdOut[1].out.body.bars) = 10
    /\ rdOut[1].out.body.bars[10] = 64
    /\ rdOut[2].out.body.bars[10] = 56

----------------------------------------------------------------------------
(* Properties of the builder and of composition, checked under SpecQ *)

LayerRank(name) ==
    CASE name = "background" -> 1
      [] name = "symbol" -> 2
      [] name = "logo" -> 3
      [] name = "watermark" -> 4
      [] name = "label" -> 5

Names(layers) == [k \in 1..Len(layers) |-> layers[k].name]

\* whether options o ask for the layer
LayerConfigured(o, name) ==
    CASE name = "logo" -> DTruthy(o.logoPath)
      [] name = "watermark" -> DTruthy(o.watermark)
      [] name = "label" -> DTruthy(o.label)
      [] OTHER -> TRUE

\* the layers of a surface that was serialized: a layer is there when it was
\* configured at the time generate tested it (seen) and its load and draw
\* did not fail (ext)
ExpectedNames(seen, ext) ==
    <<"background", "symbol">>
    \o (IF seen.logo = "yes" /\ ext.logo = "ok" THEN <<"logo">> ELSE <<>>)
    \o (IF seen.watermark = "yes" /\ ext.watermark = "ok" THEN <<"watermark">> ELSE <<>>)
    \o (IF seen.label = "yes" THEN <<"label">> ELSE <<>>)

Generated(g) == g.pc = "done" /\ g.ext.qr = "ok" /\ g.ext.serialize = "ok"

\* C16: the result of build() holds a snapshot of the configuration: whatever
\* setters are called after build(), every layer a generate() of the result
\* paints is one the options had configured at build() and is laid out
\* with the size they had then
C16_AsStated ==
    \A j \in 1..Len(gens) :
        /\ gens[j].size = built.options.size
        /\ \A k \in 1..Len(gens[j].layers) :
              /\ gens[j].layers[k].size = built.options.size
              /\ LayerConfigured(built.options, gens[j].layers[k].name)

\* C17: a failure to load or draw the logo or the watermark is logged and
\* never makes generate() fail: the remaining layers are painted and the
\* serialized surface, of the size configured at the call, is returned; a
\* failure of base-symbol generation makes generate() fail with 'QR code
\* generation failed: ...'
C17_LogoWatermarkNonFatal ==
    \A j \in 1..Len(gens) :
        LET g == gens[j]
            failures == {step \in {"logo", "watermark"} : g.ext[step] = "fail"}
        IN  /\ g.ext.qr = "fail" =>
                  /\ g.settled = "rejected"
                  /\ g.error.text = "QR code generation failed: ${error.message}"
            /\ g.settled = "rejected" =>
                  g.ext.qr = "fail" \/ g.ext.serialize = "fail"
            /\ Len(g.warnings) = Cardinality(failures)
            /\ Generated(g) =>
                  /\ g.settled = "resolved"
                  /\ g.artifact.size = g.called.size
                  /\ Names(g.artifact.layers) = ExpectedNames(g.seen, g.ext)

C17_Witness ==
    \E j \in 1..Len(gens) :
        /\ gens[j].settled = "resolved"
        /\ gens[j].ext.logo = "fail"
        /\ Names(gens[j].artifact.layers) =
              <<"background", "symbol", "watermark", "label">>

\* C18: within one generate() the layers are painted in the order
\* background, base symbol, logo, watermark, label, each after the step
\* before it has completed; a layer that is not configured is skipped; the
\* surface is serialized after the last layer is painted
C18_LayerOrder ==
    \A j \in 1..Len(gens) :
        LET g == gens[j]
        IN  /\ \A k, l \in 1..Len(g.layers) :
                  k < l => LayerRank(g.layers[k].name) < LayerRank(g.layers[l].name)
            /\ g.pc \in {"qr", "qrImage"} => Names(g.layers) = <<"background">>
            /\ g.pc = "logoImage" => Names(g.layers) = <<"background", "symbol">>
            /\ g.pc \in {"afterLogo", "watermarkImage"} =>
                  \A k \in 1..Len(g.layers) : LayerRank(g.layers[k].name) <= 3
            /\ g.pc = "afterWatermark" =>
                  \A k \in 1..Len(g.layers) : LayerRank(g.layers[k].name) <= 4
            /\ g.settled = "resolved" =>
                  /\ g.artifact.layers = g.layers
                  /\ Names(g.layers) = ExpectedNames(g.seen, g.ext)

C18_Witness ==
    \E j \in 1..Len(gens) :
        /\ gens[j].settled = "resolved"
        /\ Names(gens[j].artifact.layers) =
              <<"background", "symbol", "logo", "watermark", "label">>

----------------------------------------------------------------------------
(* Properties of generation calls in flight together, checked under SpecC *)

\* what the tests of generate find in options o
SeenIn(o) ==
    [logo |-> IF DTruthy(o.logoPath) THEN "yes" ELSE "no",
     watermark |-> IF DTruthy(o.watermark) THEN "yes" ELSE "no",
     label |-> IF DTruthy(o.label) THEN "yes" ELSE "no"]

\* the surface generate call j would serialize when run alone with the
\* options it was called with and the same environment
Alone(j, g) ==
    LET names == ExpectedNames(SeenIn(g.called), g.ext)
    IN  Buffer(g.called.size,
               [k \in 1..Len(names) |-> Layer(names[k], j, g.called.size)],
               g.called.format)

\* C19: generation calls in flight together share no mutable state: every
\* PDF render collects exactly the chunks its own stream emitted and
\* resolves with them; every composition paints only the canvas it created
\* and resolves with the surface it would produce when run alone
C19_NoSharedState ==
    /\ \A i \in 1..Len(pdfs) :
          /\ pdfs[i].chunks = pdfs[i].emitted
          /\ pdfs[i].promise = "resolved" => pdfs[i].value = pdfs[i].emitted
    /\ \A j \in 1..Len(gens) :
          /\ \A k \in 1..Len(gens[j].layers) :
                /\ gens[j].layers[k].by = j
                /\ gens[j].layers[k].size = gens[j].size
          /\ gens[j].settled = "resolved" => gens[j].artifact = Alone(j, gens[j])

C19_Witness ==
    /\ Len(gens) = 2
    /\ gens[1].pc = "logoImage"
    /\ gens[2].pc = "afterWatermark"
    /\ Len(gens[2].layers) = 4

----------------------------------------------------------------------------
(* Properties of the MIME types of the builder, checked under SpecQ *)

\* the formats the builder documents for format(): png, svg, jpg
BuilderFormats == {"png", "svg", "jpg"}

\* C30: for every format the builder accepts (png, svg, jpg), the MIME type
\* in the data URI getDataUri returns and the MIME type the serialization
\* of the surface asks for are the MIME type RenderFormats.getMimeType gives
\* for that format
C30_AsStated ==
    \A j \in 1..Len(gens) :
        /\ (gens[j].settled = "resolved" /\ gens[j].artifact.format \in BuilderFormats)
              => gens[j].artifact.mime = RenderFormats_getMimeType(gens[j].artifact.format)
        /\ (gens[j].uri # NoUri /\ gens[j].uri.format \in BuilderFormats)
              => gens[j].uri.mime = RenderFormats_getMimeType(gens[j].uri.format)

====
